---- MODULE Spec2Model ----
(***************************************************************************)
(* A model of the aggregation core of design-clone:                        *)
(*   - the Context Priority Selector  (src/ai/prompts/structure_analysis)  *)
(*   - the prompt builders' truncation (src/ai/prompts/design_tokens)      *)
(*   - the Token Merge Engine, its validator and its defaults provider     *)
(*     (src/ai/extract-design-tokens.py)                                   *)
(*                                                                         *)
(* JSON / Python values are modelled as tagged records of one shape, so    *)
(* that a value of any kind can stand where the code accepts any kind:     *)
(*   k = "null" | "str" | "int" | "float" | "bool" | "dict" | "list" |     *)
(*       "raise"                                                           *)
(*   s = the text of a str (the digits of a float, the name of a raise)    *)
(*   n = the number of an int or bool                                      *)
(*   d = the mapping of a dict (a function from key strings to values)     *)
(*   l = the items of a list (a sequence of values)                        *)
(* Strings are TLA+ strings, which TLC treats as sequences of characters.  *)
(***************************************************************************)
EXTENDS Integers, Sequences, FiniteSets, TLC

VARIABLES
    pc,               \* position of the run: which call is next / has returned
    html_content,     \* build_structure_prompt argument (str or None)
    css_content,      \* build_structure_prompt / build_*_prompt argument
    dimensions,       \* build_structure_prompt argument (dict or None)
    content_summary,  \* build_structure_prompt argument (str or None)
    hierarchy,        \* build_structure_prompt argument (dict or None)
    section_name,     \* build_section_prompt argument (the image's stem)
    prompt,           \* the value returned by the prompt builder
    color,            \* validate_hex_color argument
    hex_ok,           \* validate_hex_color result
    section_tokens,   \* merge_section_tokens argument (list of section results)
    idx,              \* number of section results already processed by the loop
    merged,           \* merge_section_tokens accumulator
    seen_sizes,       \* merge_section_tokens deduplication set
    tokens,           \* the document handed back to the caller
    api_key,          \* extract_tokens: whether get_api_key() found a key
    available_images, \* extract_tokens: number of viewport screenshots found
    response,         \* extract_tokens: the model's answer
    heap,             \* the process's objects: DEFAULT_TOKENS and what runs build
    runs,             \* number of runs of main's body in this process
    sections_dir,     \* main: the stems of the images in the sections directory
    section_files,    \* main: the sorted (and capped) list of section images
    trace,            \* main: the calls of extract_section_tokens and time.sleep so far
    css_output,       \* main: the text of tokens.css
    environ,          \* os.environ
    dotenv,           \* what is at <directory>/.env, for each search directory
    dir_path,         \* load_env: the index of the directory the loop is at
    opened,           \* the .env paths parse_env_file was called with
    env_file          \* load_env: the value returned

vars == <<pc, html_content, css_content, dimensions, content_summary, hierarchy,
          section_name, prompt, color, hex_ok, section_tokens, idx, merged, seen_sizes, tokens,
          api_key, available_images, response, heap, runs, sections_dir, section_files,
          trace, css_output, environ, dotenv, dir_path, opened, env_file>>

selectorVars == <<html_content, css_content, dimensions, content_summary, hierarchy,
                  section_name, prompt>>
hexVars == <<color, hex_ok>>
mergeVars == <<section_tokens, idx, merged, seen_sizes, tokens>>
viewportVars == <<api_key, available_images, response>>
engineVars == <<mergeVars, viewportVars>>
heapVars == <<heap, runs>>
dirVars == <<sections_dir, section_files, trace>>
envVars == <<environ, dotenv, dir_path, opened, env_file>>
hostVars == <<heapVars, dirVars, css_output, envVars>>

-----------------------------------------------------------------------------
(* Python / JSON values *)

EmptyMap == [x \in {} |-> 0]

None == [k |-> "null", s |-> "", n |-> 0, d |-> EmptyMap, l |-> <<>>]
Str(x) == [k |-> "str", s |-> x, n |-> 0, d |-> EmptyMap, l |-> <<>>]
Num(x) == [k |-> "int", s |-> "", n |-> x, d |-> EmptyMap, l |-> <<>>]
Bool(b) == [k |-> "bool", s |-> "", n |-> IF b THEN 1 ELSE 0, d |-> EmptyMap, l |-> <<>>]
Dict(f) == [k |-> "dict", s |-> "", n |-> 0, d |-> f, l |-> <<>>]
List(q) == [k |-> "list", s |-> "", n |-> 0, d |-> EmptyMap, l |-> q]
Float(x) == [k |-> "float", s |-> x, n |-> 0, d |-> EmptyMap, l |-> <<>>]
Raise(e) == [k |-> "raise", s |-> e, n |-> 0, d |-> EmptyMap, l |-> <<>>]

\* A dict built from literal key/value pairs.
D1(k1, v1) == Dict(k1 :> v1)
D2(k1, v1, k2, v2) == Dict((k1 :> v1) @@ (k2 :> v2))
D3(k1, v1, k2, v2, k3, v3) == Dict((k1 :> v1) @@ (k2 :> v2) @@ (k3 :> v3))

IsRaise(v) == v.k = "raise"
IsDict(v) == v.k = "dict"
IsList(v) == v.k = "list"
IsStr(v) == v.k = "str"

\* Python truth value of an object: None, "", 0, False, {} and [] are false.
Truthy(v) ==
    CASE v.k = "null" -> FALSE
      [] v.k = "str" -> v.s # ""
      [] v.k = "int" -> v.n # 0
      [] v.k = "bool" -> v.n # 0
      [] v.k = "float" -> v.s \notin {"0.0", "-0.0"}
      [] v.k = "dict" -> DOMAIN v.d # {}
      [] v.k = "list" -> v.l # <<>>
      [] OTHER -> FALSE

\* key in obj, for a dict.
HasKey(v, key) == IsDict(v) /\ key \in DOMAIN v.d

\* obj.get(key, default): the default is evaluated before the call, and the
\* call raises AttributeError when obj has no get method.
Get(v, key, default) ==
    IF IsRaise(v) THEN v
    ELSE IF IsRaise(default) THEN default
    ELSE IF ~IsDict(v) THEN Raise("AttributeError")
    ELSE IF key \in DOMAIN v.d THEN v.d[key] ELSE default

\* obj.get(key): None when the key is missing.
Get1(v, key) == Get(v, key, None)

\* len(obj): TypeError for None and numbers.
PyLen(v) ==
    CASE IsRaise(v) -> v
      [] v.k = "list" -> Num(Len(v.l))
      [] v.k = "dict" -> Num(Cardinality(DOMAIN v.d))
      [] v.k = "str" -> Num(Len(v.s))
      [] OTHER -> Raise("TypeError")

\* The first exception among the values of a sequence, or None.
FirstRaise(q) ==
    IF \E i \in 1..Len(q) : IsRaise(q[i])
    THEN q[CHOOSE i \in 1..Len(q) : IsRaise(q[i]) /\ \A j \in 1..(i-1) : ~IsRaise(q[j])]
    ELSE None

-----------------------------------------------------------------------------
(* Validator: validate_hex_color *)

HexDigits == {"0", "1", "2", "3", "4", "5", "6", "7", "8", "9",
              "a", "b", "c", "d", "e", "f", "A", "B", "C", "D", "E", "F"}

CharAt(s, i) == SubSeq(s, i, i)

\* The regular expression's "$" at position p (the index of the next unread
\* character): Python's "$" matches at the end of the string and also just
\* before a newline that is the last character.
DollarMatches(s, p) ==
    \/ p = Len(s) + 1
    \/ p = Len(s) /\ CharAt(s, p) = "\n"

\* re.match(r'^#[0-9A-Fa-f]{6}$', s) for a string s.
HexPatternMatches(s) ==
    /\ Len(s) >= 7
    /\ CharAt(s, 1) = "#"
    /\ \A i \in 2..7 : CharAt(s, i) \in HexDigits
    /\ DollarMatches(s, 8)

\* validate_hex_color(color): bool(re.match(...)); re.match raises TypeError
\* for an argument that is not a string.
validate_hex_color(c) ==
    IF IsRaise(c) THEN c
    ELSE IF ~IsStr(c) THEN Raise("TypeError")
    ELSE Bool(HexPatternMatches(c.s))

IsTrue(v) == v.k = "bool" /\ v.n = 1

-----------------------------------------------------------------------------
(* String helpers *)

Min(a, b) == IF a <= b THEN a ELSE b

\* s * n for a string s: n copies of s ('' when n <= 0).
RECURSIVE Rep(_, _)
Rep(s, n) ==
    IF n <= 0 THEN ""
    ELSE IF n % 2 = 0 THEN LET h == Rep(s, n \div 2) IN h \o h
    ELSE s \o Rep(s, n - 1)

\* s[:n] for a string s.
Prefix(s, n) == SubSeq(s, 1, Min(Len(s), n))

\* '\n'.join(lines) for a sequence of strings.
RECURSIVE JoinLines(_)
JoinLines(q) ==
    IF q = <<>> THEN ""
    ELSE IF Len(q) = 1 THEN q[1]
    ELSE q[1] \o "\n" \o JoinLines(Tail(q))

\* sub in s, for strings.
Contains(s, sub) ==
    \E i \in 1..(Len(s) - Len(sub) + 1) : SubSeq(s, i, i + Len(sub) - 1) = sub

UpperCase == "ABCDEFGHIJKLMNOPQRSTUVWXYZ"
LowerCase == "abcdefghijklmnopqrstuvwxyz"

LowerChar(c) ==
    IF \E i \in 1..26 : CharAt(UpperCase, i) = c
    THEN CharAt(LowerCase, CHOOSE i \in 1..26 : CharAt(UpperCase, i) = c)
    ELSE c

\* s.lower()
RECURSIVE Lower(_)
Lower(s) == IF s = "" THEN "" ELSE LowerChar(CharAt(s, 1)) \o Lower(Tail(s))

\* s.replace(old, '')
RECURSIVE Remove(_, _)
Remove(s, old) ==
    IF Len(s) < Len(old) THEN s
    ELSE IF SubSeq(s, 1, Len(old)) = old THEN Remove(SubSeq(s, Len(old) + 1, Len(s)), old)
    ELSE CharAt(s, 1) \o Remove(Tail(s), old)

\* s.split(sep) for a one-character separator: the parts, in order.
RECURSIVE Split(_, _)
Split(s, sep) ==
    IF ~Contains(s, sep) THEN <<s>>
    ELSE LET i == CHOOSE j \in 1..Len(s) :
                    CharAt(s, j) = sep /\ \A m \in 1..(j - 1) : CharAt(s, m) # sep
         IN <<SubSeq(s, 1, i - 1)>> \o Split(SubSeq(s, i + 1, Len(s)), sep)

\* format(value): the text a value contributes to an f-string or str.format.
\* The text of a dict or list is abridged to its brackets.
PyStr(v) ==
    CASE v.k = "str" -> v.s
      [] v.k = "null" -> "None"
      [] v.k = "int" -> ToString(v.n)
      [] v.k = "float" -> v.s
      [] v.k = "bool" -> IF v.n = 1 THEN "True" ELSE "False"
      [] v.k = "dict" -> "{}"
      [] v.k = "list" -> "[]"
      [] OTHER -> ""

\* obj[:n]: a slice of a str or list; TypeError for anything else.
Slice(v, n) ==
    CASE IsRaise(v) -> v
      [] v.k = "str" -> Str(Prefix(v.s, n))
      [] v.k = "list" -> List(SubSeq(v.l, 1, Min(Len(v.l), n)))
      [] OTHER -> Raise("TypeError")

\* The items a for loop draws from a str (its characters) or a list.
Items(v) ==
    CASE v.k = "list" -> v.l
      [] v.k = "str" -> [i \in 1..Len(v.s) |-> Str(CharAt(v.s, i))]
      [] OTHER -> <<>>

\* The texts of a sequence of str values.
Texts(q) == [i \in 1..Len(q) |-> q[i].s]

-----------------------------------------------------------------------------
(* Context Priority Selector: the formatters of the hierarchy tier *)

\* One iteration of format_heading_hierarchy's loop: the line of heading h.
HeadingLine(h) ==
    LET level == Get(h, "level", Num(1))
        indent == IF IsRaise(level) THEN level
                  ELSE IF level.k \in {"int", "bool"}
                       THEN Str(Rep("  ", level.n - 1))
                       ELSE Raise("TypeError")
        section == Get(h, "section", Str("content"))
        text == IF Truthy(Get1(h, "text"))
                THEN Slice(Get(h, "text", Str("")), 30)
                ELSE Str("")
        err == FirstRaise(<<indent, section, text>>)
    IN IF IsRaise(err) THEN err
       ELSE Str(indent.s \o "- H" \o PyStr(level) \o " (" \o PyStr(section)
                \o "): \"" \o PyStr(text) \o "...\"")

format_heading_hierarchy(heading_tree) ==
    IF ~Truthy(heading_tree) THEN Str("No headings detected")
    ELSE LET first == Slice(heading_tree, 10)
         IN IF IsRaise(first) THEN first
            ELSE LET hs == Items(first)
                     lines == [i \in 1..Len(hs) |-> HeadingLine(hs[i])]
                     err == FirstRaise(lines)
                 IN IF IsRaise(err) THEN err ELSE Str(JoinLines(Texts(lines)))

\* sections.get(name, {}).get('found') and the line it produces.
SectionLine(sections, name, label) ==
    LET sec == Get(sections, name, Dict(EmptyMap))
        found == Get1(sec, "found")
    IN IF IsRaise(found) THEN <<found>>
       ELSE IF ~Truthy(found) THEN <<>>
       ELSE LET width == Get(sec, "containerWidth", Str("unknown"))
            IN <<Str("- " \o label \o ": Present (container width: "
                     \o PyStr(width) \o "px)")>>

LandmarkLine(landmarks, name, line) ==
    LET lm == Get1(landmarks, name)
    IN IF IsRaise(lm) THEN <<lm>>
       ELSE IF Truthy(lm) THEN <<Str(line)>> ELSE <<>>

AsideLine(landmarks) ==
    LET aside == Get1(landmarks, "aside")
    IN IF IsRaise(aside) THEN <<aside>>
       ELSE IF ~Truthy(aside) THEN <<>>
       ELSE LET cnt == PyLen(aside)
            IN IF IsRaise(cnt) THEN <<cnt>>
               ELSE <<Str("- Sidebars: " \o PyStr(cnt) \o " detected")>>

format_section_structure(landmarks, sections) ==
    LET lines == LandmarkLine(landmarks, "header", "- Header: Present (semantic <header>)")
                 \o SectionLine(sections, "hero", "Hero")
                 \o LandmarkLine(landmarks, "main", "- Main: Present (semantic <main>)")
                 \o SectionLine(sections, "content", "Content")
                 \o AsideLine(landmarks)
                 \o LandmarkLine(landmarks, "footer", "- Footer: Present (semantic <footer>)")
        err == FirstRaise(lines)
    IN IF IsRaise(err) THEN err
       ELSE IF lines = <<>> THEN Str("No sections detected")
       ELSE Str(JoinLines(Texts(lines)))

MAX_DEPTH == 4

\* walk(node, depth) of format_dom_nesting: the lines it appends, in order; an
\* exception is an item of the sequence and ends the walk.
RECURSIVE walk(_, _)
RECURSIVE WalkChildren(_, _)
WalkChildren(children, depth) ==
    IF children = <<>> THEN <<>>
    ELSE LET first == walk(children[1], depth)
         IN IF IsRaise(FirstRaise(first)) THEN first
            ELSE first \o WalkChildren(Tail(children), depth)

walk(node, depth) ==
    IF depth > MAX_DEPTH \/ ~Truthy(node) THEN <<>>
    ELSE LET role == Get1(node, "role")
             children == Slice(Get(node, "children", List(<<>>)), 5)
         IN IF IsRaise(role) THEN <<role>>
            ELSE IF ~Truthy(role)
            THEN IF IsRaise(children) THEN <<children>>
                 ELSE WalkChildren(Items(children), depth)
            ELSE LET tag == Get(node, "tagName", Str("div"))
                     line == Str(Rep("  ", depth) \o "<" \o PyStr(tag) \o "> <!-- "
                                 \o PyStr(role) \o " -->")
                 IN IF IsRaise(children) THEN <<line, children>>
                    ELSE <<line>> \o WalkChildren(Items(children), depth + 1)

format_dom_nesting(root) ==
    IF ~Truthy(root) THEN Str("No DOM structure available")
    ELSE LET lines == walk(root, 0)
             err == FirstRaise(lines)
         IN IF IsRaise(err) THEN err
            ELSE Str(JoinLines(Texts(SubSeq(lines, 1, Min(Len(lines), 30)))))

-----------------------------------------------------------------------------
(* Context Priority Selector: templates and payloads *)

\* The replacement fields of each template (the names between braces).
Placeholders(template) ==
    CASE template = "STRUCTURE_PROMPT" -> {}
      [] template = "STRUCTURE_PROMPT_WITH_CONTEXT" -> {"html_snippet", "css_snippet"}
      [] template = "STRUCTURE_PROMPT_WITH_DIMENSIONS" ->
            {"container_max_width", "section_padding", "gap", "card_width",
             "card_height", "card_padding", "h1", "h2", "h3", "body",
             "desktop_breakpoint", "tablet_breakpoint", "mobile_breakpoint",
             "h1_tablet", "h1_mobile", "h2_tablet", "h2_mobile"}
      [] template = "STRUCTURE_PROMPT_WITH_HIERARCHY" ->
            {"header_found", "main_found", "footer_found", "sidebar_count",
             "nav_count", "heading_hierarchy", "section_structure",
             "container_max_width", "section_padding", "gap", "card_width",
             "card_height", "card_padding", "hero_h1", "hero_h2", "hero_body",
             "content_h2", "content_h3", "content_body", "footer_body",
             "desktop_breakpoint", "tablet_breakpoint", "mobile_breakpoint",
             "h1_tablet", "h1_mobile", "h2_tablet", "h2_mobile", "dom_nesting"}
      [] template = "EXTRACTION_PROMPT" -> {}
      [] template = "EXTRACTION_PROMPT_WITH_CSS" -> {"css_content"}
      [] template = "SECTION_EXTRACTION_PROMPT" -> {"section_type"}
      [] template = "SECTION_EXTRACTION_PROMPT_WITH_CSS" -> {"section_type", "css_content"}
      [] OTHER -> {}

\* A payload: the template it was rendered from, the text rendered into each
\* replacement field, and the texts appended after the rendered template.
Payload(template, args, tail) ==
    [st |-> "ok", exc |-> "", template |-> template, args |-> args, tail |-> tail]
Failed(exc) ==
    [st |-> "raise", exc |-> exc, template |-> "", args |-> EmptyMap, tail |-> <<>>]
NoPayload ==
    [st |-> "unset", exc |-> "", template |-> "", args |-> EmptyMap, tail |-> <<>>]

\* The values of the variables a run does not use.
Idle == None
IdleSelector ==
    /\ html_content = Idle /\ css_content = Idle /\ dimensions = Idle
    /\ content_summary = Idle /\ hierarchy = Idle /\ section_name = ""
    /\ prompt = NoPayload
IdleHex == color = Idle /\ hex_ok = Idle
IdleMerge ==
    /\ section_tokens = <<>> /\ idx = 0 /\ merged = Idle /\ seen_sizes = {}
    /\ tokens = Idle
IdleViewport == api_key = FALSE /\ available_images = 0 /\ response = Idle
IdleEngine == IdleMerge /\ IdleViewport
IdleHeap == heap = <<>> /\ runs = 0
IdleDir == sections_dir = {} /\ section_files = <<>> /\ trace = <<>>
IdleEnv ==
    /\ environ = EmptyMap /\ dotenv = <<>> /\ dir_path = 0 /\ opened = <<>> /\ env_file = Idle
IdleHost == IdleHeap /\ IdleDir /\ css_output = Idle /\ IdleEnv

\* template.format(**kwargs): every replacement field takes the text of its
\* keyword argument; a field without an argument raises KeyError; arguments
\* that name no field are ignored.
FormatTemplate(template, kwargs) ==
    IF Placeholders(template) \subseteq DOMAIN kwargs
    THEN Payload(template, [p \in Placeholders(template) |-> PyStr(kwargs[p])], <<>>)
    ELSE Failed("KeyError")

\* The arguments of a format call, evaluated in order: the first exception
\* raised while evaluating them (or before them) leaves the function.
FormatOrRaise(template, evaluated, kwargs) ==
    LET err == FirstRaise(evaluated)
    IN IF IsRaise(err) THEN Failed(err.s) ELSE FormatTemplate(template, kwargs)

YesNo(v) == IF IsRaise(v) THEN v ELSE IF Truthy(v) THEN Str("Yes") ELSE Str("No")

\* Mutant: the default is left out of card.get.
CardField_NoDefault(card, key, default) ==
    IF IsRaise(card) THEN card
    ELSE IF IsDict(card) THEN Get1(card, key) ELSE Str(default)

\* card.get(key, default) if isinstance(card, dict) else default
CardField(card, key, default) ==
    IF IsRaise(card) THEN card
    ELSE IF IsDict(card) THEN Get(card, key, Str(default)) ELSE Str(default)

\* scaling.get(h, {}).get(key, default) if isinstance(scaling.get(h), dict) else default
ScalingField(scaling, h, key, default) ==
    LET probe == Get1(scaling, h)
    IN IF IsRaise(probe) THEN probe
       ELSE IF IsDict(probe)
            THEN Get(Get(scaling, h, Dict(EmptyMap)), key, Str(default))
            ELSE Str(default)

build_hierarchy_prompt(dims, hier) ==
    LET exact == Get(dims, "EXACT_DIMENSIONS", Dict(EmptyMap))
        typo == Get(dims, "EXACT_TYPOGRAPHY", Dict(EmptyMap))
        typo_by_section == Get(dims, "TYPOGRAPHY_BY_SECTION", Dict(EmptyMap))
        resp == Get(dims, "RESPONSIVE", Dict(EmptyMap))
        sections == Get(dims, "SECTIONS", Dict(EmptyMap))
        card == Get(exact, "card_dimensions", Dict(EmptyMap))
        scaling == Get(resp, "typography_scaling", Dict(EmptyMap))
        landmarks == Get(hier, "landmarks", Dict(EmptyMap))
        heading_tree == Get(hier, "headingTree", List(<<>>))
        heading_hierarchy == format_heading_hierarchy(heading_tree)
        section_structure == format_section_structure(landmarks, sections)
        dom_nesting == format_dom_nesting(Get1(hier, "root"))
        hero_typo == Get(typo_by_section, "hero", Dict(EmptyMap))
        content_typo == Get(typo_by_section, "content", Dict(EmptyMap))
        footer_typo == Get(typo_by_section, "footer", Dict(EmptyMap))
        kwargs ==
            ("header_found" :> YesNo(Get1(landmarks, "header")))
         @@ ("main_found" :> YesNo(Get1(landmarks, "main")))
         @@ ("footer_found" :> YesNo(Get1(landmarks, "footer")))
         @@ ("sidebar_count" :> PyLen(Get(landmarks, "aside", List(<<>>))))
         @@ ("nav_count" :> PyLen(Get(landmarks, "nav", List(<<>>))))
         @@ ("heading_hierarchy" :> heading_hierarchy)
         @@ ("section_structure" :> section_structure)
         @@ ("container_max_width" :> Get(exact, "container_max_width", Str("1200px")))
         @@ ("section_padding" :> Get(exact, "section_padding", Str("64px 0")))
         @@ ("gap" :> Get(exact, "gap", Str("24px")))
         @@ ("card_width" :> CardField(card, "width", "380px"))
         @@ ("card_height" :> CardField(card, "height", "auto"))
         @@ ("card_padding" :> CardField(card, "padding", "24px"))
         @@ ("hero_h1" :> Get(hero_typo, "h1", Get(typo, "h1", Str("64px"))))
         @@ ("hero_h2" :> Get(hero_typo, "h2", Get(typo, "h2", Str("48px"))))
         @@ ("hero_body" :> Get(hero_typo, "p", Get(typo, "body", Str("18px"))))
         @@ ("content_h2" :> Get(content_typo, "h2", Get(typo, "h2", Str("32px"))))
         @@ ("content_h3" :> Get(content_typo, "h3", Get(typo, "h3", Str("24px"))))
         @@ ("content_body" :> Get(content_typo, "p", Get(typo, "body", Str("16px"))))
         @@ ("footer_body" :> Get(footer_typo, "p", Str("14px")))
         @@ ("desktop_breakpoint" :> Get(resp, "desktop_breakpoint", Str("1440px")))
         @@ ("tablet_breakpoint" :> Get(resp, "tablet_breakpoint", Str("768px")))
         @@ ("mobile_breakpoint" :> Get(resp, "mobile_breakpoint", Str("375px")))
         @@ ("h1_tablet" :> ScalingField(scaling, "h1", "tablet", "36px"))
         @@ ("h1_mobile" :> ScalingField(scaling, "h1", "mobile", "28px"))
         @@ ("h2_tablet" :> ScalingField(scaling, "h2", "tablet", "28px"))
         @@ ("h2_mobile" :> ScalingField(scaling, "h2", "mobile", "24px"))
         @@ ("dom_nesting" :> dom_nesting)
        order == <<"header_found", "main_found", "footer_found", "sidebar_count",
                   "nav_count", "heading_hierarchy", "section_structure",
                   "container_max_width", "section_padding", "gap", "card_width",
                   "card_height", "card_padding", "hero_h1", "hero_h2", "hero_body",
                   "content_h2", "content_h3", "content_body", "footer_body",
                   "desktop_breakpoint", "tablet_breakpoint", "mobile_breakpoint",
                   "h1_tablet", "h1_mobile", "h2_tablet", "h2_mobile", "dom_nesting">>
        evaluated == <<exact, typo, typo_by_section, resp, sections, card, scaling,
                       landmarks, heading_tree, heading_hierarchy, section_structure,
                       dom_nesting, hero_typo, content_typo, footer_typo>>
                     \o [i \in 1..Len(order) |-> kwargs[order[i]]]
    IN FormatOrRaise("STRUCTURE_PROMPT_WITH_HIERARCHY", evaluated, kwargs)

\* The dimensions tier of build_structure_prompt (Priority 2).
DimensionsPrompt(dims) ==
    LET exact == Get(dims, "EXACT_DIMENSIONS", Dict(EmptyMap))
        typo == Get(dims, "EXACT_TYPOGRAPHY", Dict(EmptyMap))
        resp == Get(dims, "RESPONSIVE", Dict(EmptyMap))
        card == Get(exact, "card_dimensions", Dict(EmptyMap))
        scaling == Get(resp, "typography_scaling", Dict(EmptyMap))
        kwargs ==
            ("container_max_width" :> Get(exact, "container_max_width", Str("1200px")))
         @@ ("section_padding" :> Get(exact, "section_padding", Str("64px 0")))
         @@ ("gap" :> Get(exact, "gap", Str("24px")))
         @@ ("card_width" :> CardField(card, "width", "380px"))
         @@ ("card_height" :> CardField(card, "height", "auto"))
         @@ ("card_padding" :> CardField(card, "padding", "24px"))
         @@ ("h1" :> Get(typo, "h1", Str("48px")))
         @@ ("h2" :> Get(typo, "h2", Str("36px")))
         @@ ("h3" :> Get(typo, "h3", Str("28px")))
         @@ ("body" :> Get(typo, "body", Str("16px")))
         @@ ("desktop_breakpoint" :> Get(resp, "desktop_breakpoint", Str("1440px")))
         @@ ("tablet_breakpoint" :> Get(resp, "tablet_breakpoint", Str("768px")))
         @@ ("mobile_breakpoint" :> Get(resp, "mobile_breakpoint", Str("375px")))
         @@ ("h1_tablet" :> ScalingField(scaling, "h1", "tablet", "36px"))
         @@ ("h1_mobile" :> ScalingField(scaling, "h1", "mobile", "28px"))
         @@ ("h2_tablet" :> ScalingField(scaling, "h2", "tablet", "28px"))
         @@ ("h2_mobile" :> ScalingField(scaling, "h2", "mobile", "24px"))
        order == <<"container_max_width", "section_padding", "gap", "card_width",
                   "card_height", "card_padding", "h1", "h2", "h3", "body",
                   "desktop_breakpoint", "tablet_breakpoint", "mobile_breakpoint",
                   "h1_tablet", "h1_mobile", "h2_tablet", "h2_mobile">>
        evaluated == <<exact, typo, resp, card, scaling>>
                     \o [i \in 1..Len(order) |-> kwargs[order[i]]]
    IN FormatOrRaise("STRUCTURE_PROMPT_WITH_DIMENSIONS", evaluated, kwargs)

HTML_BUDGET == 100000
CSS_BUDGET == 100000

\* Mutant: the end of an oversized text is kept instead of its beginning.
Truncate_KeepSuffix(content, budget) ==
    IF Len(content) > budget
    THEN SubSeq(content, Len(content) - budget + 1, Len(content))
    ELSE content

\* content[:budget] if len(content) > budget else content
Truncate(content, budget) ==
    IF Len(content) > budget THEN Prefix(content, budget) ELSE content

\* The markup tier of build_structure_prompt.
MarkupPrompt(html, css) ==
    LET html_snippet == Truncate(html.s, HTML_BUDGET)
        css_snippet == Truncate(css.s, CSS_BUDGET)
    IN FormatTemplate("STRUCTURE_PROMPT_WITH_CONTEXT",
                      ("html_snippet" :> Str(html_snippet))
                   @@ ("css_snippet" :> Str(css_snippet)))

SEPARATOR == "\n\n---\n\n"
COUNTS_INSTRUCTION ==
    "\n\nIMPORTANT: Use the EXACT item counts above when describing sections. Do NOT estimate."

\* Mutant: the summary is appended without the instruction that follows it.
append_content_counts_NoInstruction(p, summary) ==
    IF p.st # "ok" THEN p
    ELSE IF Truthy(summary)
         THEN [p EXCEPT !.tail = @ \o <<SEPARATOR, summary.s>>]
         ELSE p

\* append_content_counts(prompt), with the enclosing content_summary explicit.
append_content_counts(p, summary) ==
    IF p.st # "ok" THEN p
    ELSE IF Truthy(summary)
         THEN IF IsStr(summary)
              THEN [p EXCEPT !.tail = @ \o <<SEPARATOR, summary.s, COUNTS_INSTRUCTION>>]
              ELSE Failed("TypeError")
         ELSE p

\* Mutant: the markup tier is tried before the dimensions tier.
build_structure_prompt_MarkupFirst(html, css, dims, summary, hier) ==
    IF Truthy(hier) /\ Truthy(dims)
    THEN append_content_counts(build_hierarchy_prompt(dims, hier), summary)
    ELSE IF Truthy(html) /\ Truthy(css)
    THEN append_content_counts(MarkupPrompt(html, css), summary)
    ELSE IF Truthy(dims)
    THEN append_content_counts(DimensionsPrompt(dims), summary)
    ELSE append_content_counts(Payload("STRUCTURE_PROMPT", EmptyMap, <<>>), summary)

build_structure_prompt(html, css, dims, summary, hier) ==
    IF Truthy(hier) /\ Truthy(dims)
    THEN append_content_counts(build_hierarchy_prompt(dims, hier), summary)
    ELSE IF Truthy(dims)
    THEN append_content_counts(DimensionsPrompt(dims), summary)
    ELSE IF Truthy(html) /\ Truthy(css)
    THEN append_content_counts(MarkupPrompt(html, css), summary)
    ELSE append_content_counts(Payload("STRUCTURE_PROMPT", EmptyMap, <<>>), summary)

-----------------------------------------------------------------------------
(* Token extraction prompts (prompts/design_tokens.py) *)

EXTRACTION_CSS_BUDGET == 15000
SECTION_CSS_BUDGET == 5000

build_extraction_prompt(css) ==
    IF Truthy(css)
    THEN FormatTemplate("EXTRACTION_PROMPT_WITH_CSS",
                        "css_content" :> Str(Truncate(css.s, EXTRACTION_CSS_BUDGET)))
    ELSE Payload("EXTRACTION_PROMPT", EmptyMap, <<>>)

\* type_mapping of build_section_prompt, in its iteration order.
TypeMapping ==
    << <<"header", "header/navigation">>, <<"footer", "footer">>,
       <<"hero", "hero/banner">>, <<"nav", "navigation">>,
       <<"cta", "call-to-action">>, <<"services", "services/features">>,
       <<"features", "features">>, <<"about", "about">>, <<"contact", "contact">>,
       <<"testimonials", "testimonials">>, <<"pricing", "pricing">>,
       <<"faq", "FAQ">>, <<"viewport", "page content">> >>

\* The section type build_section_prompt derives from the section name.
SectionType(name) ==
    LET parts == Split(Remove(name, ".png"), "-")
        raw == IF Len(parts) > 2 THEN parts[Len(parts)] ELSE "content"
        hits == {i \in 1..Len(TypeMapping) : Contains(Lower(raw), TypeMapping[i][1])}
    IN IF hits = {} THEN raw
       ELSE TypeMapping[CHOOSE i \in hits : \A j \in hits : i <= j][2]

build_section_prompt(name, css) ==
    IF Truthy(css)
    THEN FormatTemplate("SECTION_EXTRACTION_PROMPT_WITH_CSS",
                        ("section_type" :> Str(SectionType(name)))
                     @@ ("css_content" :> Str(Truncate(css.s, SECTION_CSS_BUDGET))))
    ELSE FormatTemplate("SECTION_EXTRACTION_PROMPT",
                        "section_type" :> Str(SectionType(name)))

-----------------------------------------------------------------------------
(* Token Merge Engine: containers *)

\* The keys of a dict in iteration order. A dict built by OrderedDict keeps
\* the order of its pairs in l; any other dict is iterated in a fixed order.
RECURSIVE SetToSeq(_)
SetToSeq(S) ==
    IF S = {} THEN <<>>
    ELSE LET x == CHOOSE y \in S : TRUE IN <<x>> \o SetToSeq(S \ {x})

Keys(v) ==
    IF Len(v.l) = Cardinality(DOMAIN v.d) /\ v.l # <<>>
    THEN [i \in 1..Len(v.l) |-> v.l[i].s]
    ELSE SetToSeq(DOMAIN v.d)

\* A dict whose keys iterate in the order of `pairs` (<<key, value>> items).
OrderedDict(pairs) ==
    [k |-> "dict", s |-> "", n |-> 0,
     d |-> [key \in {pairs[i][1] : i \in 1..Len(pairs)} |->
              pairs[CHOOSE i \in 1..Len(pairs) :
                       pairs[i][1] = key /\ \A j \in (i + 1)..Len(pairs) : pairs[j][1] # key][2]],
     l |-> [i \in 1..Len(pairs) |-> Str(pairs[i][1])]]

\* key in container: a key of a dict, an item of a list, a substring of a
\* str; TypeError for None and numbers.
KeyIn(c, key) ==
    CASE IsRaise(c) -> c
      [] c.k = "dict" -> Bool(key \in DOMAIN c.d)
      [] c.k = "list" -> Bool(\E i \in 1..Len(c.l) : c.l[i] = Str(key))
      [] c.k = "str" -> Bool(Contains(c.s, key))
      [] OTHER -> Raise("TypeError")

\* container[key] for a string key: KeyError / TypeError when there is none.
Index(c, key) ==
    CASE IsRaise(c) -> c
      [] c.k = "dict" -> IF key \in DOMAIN c.d THEN c.d[key] ELSE Raise("KeyError")
      [] OTHER -> Raise("TypeError")

\* The value at a path of keys of nested dicts.
RECURSIVE At(_, _)
At(v, path) == IF path = <<>> THEN v ELSE At(v.d[path[1]], Tail(path))

\* The document with the value at a path of keys set (doc[a][b] = val).
RECURSIVE Put(_, _, _)
Put(v, path, val) ==
    IF path = <<>> THEN val
    ELSE LET key == path[1]
             old == IF key \in DOMAIN v.d THEN v.d[key] ELSE Dict(EmptyMap)
         IN [v EXCEPT !.d = (key :> Put(old, Tail(path), val)) @@ v.d]

\* value and value != 'null'
Usable(v) == Truthy(v) /\ v # Str("null")

-----------------------------------------------------------------------------
(* Token Merge Engine: defaults and validation *)

DEFAULT_NOTE == "Using default tokens - extraction failed or was not performed"

DEFAULT_TOKENS ==
    Dict(("colors" :> Dict(
            ("primary" :> Str("#2563eb")) @@ ("secondary" :> Str("#64748b"))
         @@ ("accent" :> Str("#f59e0b")) @@ ("background" :> Str("#ffffff"))
         @@ ("surface" :> Str("#f8fafc"))
         @@ ("text" :> D3("primary", Str("#0f172a"), "secondary", Str("#475569"),
                          "muted", Str("#94a3b8")))
         @@ ("border" :> Str("#e2e8f0"))))
      @@ ("typography" :> Dict(
            ("fontFamily" :> D2("heading", Str("Inter, sans-serif"),
                                "body", Str("Inter, sans-serif")))
         @@ ("fontSize" :> Dict(
                ("xs" :> Str("12px")) @@ ("sm" :> Str("14px")) @@ ("base" :> Str("16px"))
             @@ ("lg" :> Str("18px")) @@ ("xl" :> Str("20px")) @@ ("2xl" :> Str("24px"))
             @@ ("3xl" :> Str("30px")) @@ ("4xl" :> Str("36px"))))
         @@ ("fontWeight" :> Dict(
                ("normal" :> Num(400)) @@ ("medium" :> Num(500))
             @@ ("semibold" :> Num(600)) @@ ("bold" :> Num(700))))
         @@ ("lineHeight" :> D3("tight", Float("1.25"), "normal", Float("1.5"),
                                "relaxed", Float("1.75")))))
      @@ ("spacing" :> Dict(
            ("1" :> Str("4px")) @@ ("2" :> Str("8px")) @@ ("3" :> Str("12px"))
         @@ ("4" :> Str("16px")) @@ ("6" :> Str("24px")) @@ ("8" :> Str("32px"))
         @@ ("12" :> Str("48px")) @@ ("16" :> Str("64px"))))
      @@ ("borderRadius" :> Dict(
            ("sm" :> Str("4px")) @@ ("md" :> Str("8px")) @@ ("lg" :> Str("16px"))
         @@ ("full" :> Str("9999px"))))
      @@ ("shadows" :> D3("sm", Str("0 1px 2px rgba(0,0,0,0.05)"),
                          "md", Str("0 4px 6px rgba(0,0,0,0.1)"),
                          "lg", Str("0 10px 15px rgba(0,0,0,0.1)")))
      @@ ("notes" :> List(<<Str(DEFAULT_NOTE)>>)))

\* Mutant: where both documents hold a key, the defaults' value is kept.
deep_merge_DefaultsWin(base, override) ==
    IF ~IsDict(override) THEN Raise("AttributeError")
    ELSE Dict([key \in DOMAIN base.d \cup DOMAIN override.d |->
                 IF key \in DOMAIN base.d THEN base.d[key] ELSE override.d[key]])

\* deep_merge(base, override) of merge_with_defaults.
RECURSIVE deep_merge(_, _)
deep_merge(base, override) ==
    IF ~IsDict(override) THEN Raise("AttributeError")
    ELSE LET merged_key(key) ==
                 IF key \in DOMAIN override.d
                 THEN IF key \in DOMAIN base.d /\ IsDict(base.d[key]) /\ IsDict(override.d[key])
                      THEN deep_merge(base.d[key], override.d[key])
                      ELSE override.d[key]
                 ELSE base.d[key]
         IN Dict([key \in DOMAIN base.d \cup DOMAIN override.d |-> merged_key(key)])

merge_with_defaults(toks) == deep_merge(DEFAULT_TOKENS, toks)

TOP_COLOR_KEYS == <<"primary", "secondary", "accent", "background", "surface", "border">>
TEXT_COLOR_KEYS == <<"primary", "secondary", "muted">>

\* One iteration of a loop of validate_tokens: the error notes after looking
\* at `key` of the mapping `group` (an exception replaces the notes).
ValidateSlot(errors, group, key, label) ==
    IF IsRaise(errors) THEN errors
    ELSE LET has == KeyIn(group, key)
         IN IF IsRaise(has) THEN has
            ELSE IF ~IsTrue(has) THEN errors
            ELSE LET val == Index(group, key)
                     ok == validate_hex_color(val)
                 IN IF IsRaise(ok) THEN ok
                    ELSE IF IsTrue(ok) THEN errors
                    ELSE List(Append(errors.l,
                            Str("Invalid hex color: " \o label \o key \o " = " \o PyStr(val))))

RECURSIVE ValidateSlots(_, _, _, _)
ValidateSlots(errors, group, keys, label) ==
    IF keys = <<>> THEN errors
    ELSE ValidateSlots(ValidateSlot(errors, group, keys[1], label), group, Tail(keys), label)

\* validate_tokens(tokens): the list of error notes (is_valid is its being
\* empty), or the exception raised.
validate_tokens(toks) ==
    LET hasColors == KeyIn(toks, "colors")
    IN IF IsRaise(hasColors) THEN hasColors
       ELSE IF ~IsTrue(hasColors) THEN List(<<>>)
       ELSE LET colors == Index(toks, "colors")
                top == ValidateSlots(List(<<>>), colors, TOP_COLOR_KEYS, "colors.")
                hasText == IF IsRaise(top) THEN top ELSE KeyIn(colors, "text")
            IN IF IsRaise(hasText) THEN hasText
               ELSE IF ~IsTrue(hasText) THEN top
               ELSE ValidateSlots(top, Index(colors, "text"), TEXT_COLOR_KEYS, "colors.text.")

-----------------------------------------------------------------------------
(* Token Merge Engine: merge_section_tokens *)

\* The accumulator merge_section_tokens starts from.
InitialMerged(results) ==
    Dict(("colors" :> Dict(
            ("primary" :> None) @@ ("secondary" :> None) @@ ("accent" :> None)
         @@ ("background" :> None) @@ ("surface" :> None)
         @@ ("text" :> D3("primary", None, "secondary", None, "muted", None))
         @@ ("border" :> None)))
      @@ ("typography" :> Dict(
            ("fontFamily" :> D2("heading", None, "body", None))
         @@ ("fontSize" :> Dict(EmptyMap))
         @@ ("fontWeight" :> Dict(("normal" :> None) @@ ("medium" :> None)
                               @@ ("semibold" :> None) @@ ("bold" :> None)))
         @@ ("lineHeight" :> Dict(EmptyMap))))
      @@ ("spacing" :> Dict(EmptyMap))
      @@ ("borderRadius" :> Dict(EmptyMap))
      @@ ("shadows" :> Dict(EmptyMap))
      @@ ("notes" :> List(<<>>))
      @@ ("_sections" :> List(<<>>))
      @@ ("_sectionCount" :> Num(Len(results))))

\* The loop's state: the accumulator, the seen sizes, and the exception that
\* left the loop ("" while there is none).
Acc(m, seen, err) == [m |-> m, seen |-> seen, err |-> err]

\* Mutant: a second value for a filled slot empties the slot.
PutIfNone_Toggle(m, path, val) ==
    IF At(m, path) = None THEN Put(m, path, val) ELSE Put(m, path, None)

\* doc[path] = val if doc[path] is None.
PutIfNone(m, path, val) == IF At(m, path) = None THEN Put(m, path, val) ELSE m

\* Mutant: the key is written whether it is there or not.
PutIfMissing_Overwrite(m, path, key, val) == Put(m, Append(path, key), val)

\* doc[path][key] = val if key not in doc[path].
PutIfMissing(m, path, key, val) ==
    IF key \in DOMAIN At(m, path).d THEN m ELSE Put(m, Append(path, key), val)

\* color_mappings: source key, destination slot.
COLOR_MAPPINGS ==
    << <<"background", <<"colors", "background">>>>,
       <<"text", <<"colors", "text", "primary">>>>,
       <<"heading", <<"colors", "text", "secondary">>>>,
       <<"accent", <<"colors", "accent">>>>,
       <<"border", <<"colors", "border">>>> >>

\* Mutant: the value is written without the hex check.
MergeColor_Unchecked(a, colors, mapping) ==
    IF a.err # "" THEN a
    ELSE LET has == KeyIn(colors, mapping[1])
         IN IF IsRaise(has) THEN Acc(a.m, a.seen, has.s)
            ELSE IF ~IsTrue(has) THEN a
            ELSE LET value == Index(colors, mapping[1])
                 IN IF IsRaise(value) THEN Acc(a.m, a.seen, value.s)
                    ELSE IF ~Usable(value) THEN a
                    ELSE Acc(PutIfNone(a.m, mapping[2], value), a.seen, "")

\* One iteration of the loop over color_mappings.
MergeColor(a, colors, mapping) ==
    IF a.err # "" THEN a
    ELSE LET has == KeyIn(colors, mapping[1])
         IN IF IsRaise(has) THEN Acc(a.m, a.seen, has.s)
            ELSE IF ~IsTrue(has) THEN a
            ELSE LET value == Index(colors, mapping[1])
                 IN IF IsRaise(value) THEN Acc(a.m, a.seen, value.s)
                    ELSE IF ~Usable(value) THEN a
                    ELSE LET ok == validate_hex_color(value)
                         IN IF IsRaise(ok) THEN Acc(a.m, a.seen, ok.s)
                            ELSE IF IsTrue(ok)
                                 THEN Acc(PutIfNone(a.m, mapping[2], value), a.seen, "")
                                 ELSE a

RECURSIVE MergeColorLoop(_, _, _)
MergeColorLoop(a, colors, i) ==
    IF i > Len(COLOR_MAPPINGS) THEN a
    ELSE MergeColorLoop(MergeColor(a, colors, COLOR_MAPPINGS[i]), colors, i + 1)

\* Infer primary from accent if not set.
InferPrimary(a, colors) ==
    IF a.err # "" \/ At(a.m, <<"colors", "primary">>) # None THEN a
    ELSE LET has == KeyIn(colors, "accent")
         IN IF IsRaise(has) THEN Acc(a.m, a.seen, has.s)
            ELSE IF ~IsTrue(has) THEN a
            ELSE LET accent == Index(colors, "accent")
                 IN IF IsRaise(accent) THEN Acc(a.m, a.seen, accent.s)
                    ELSE IF ~Truthy(accent) THEN a
                    ELSE LET ok == validate_hex_color(accent)
                         IN IF IsRaise(ok) THEN Acc(a.m, a.seen, ok.s)
                            ELSE IF IsTrue(ok)
                                 THEN Acc(Put(a.m, <<"colors", "primary">>, accent), a.seen, "")
                                 ELSE a

MergeColors(a, toks) ==
    IF a.err # "" \/ "colors" \notin DOMAIN toks.d THEN a
    ELSE LET colors == toks.d["colors"]
         IN InferPrimary(MergeColorLoop(a, colors, 1), colors)

\* Mutant: the font fills the heading slot only.
MergeFontFamily_HeadingOnly(a, typo) ==
    IF a.err # "" THEN a
    ELSE LET has == KeyIn(typo, "fontFamily")
         IN IF IsRaise(has) THEN Acc(a.m, a.seen, has.s)
            ELSE IF ~IsTrue(has) THEN a
            ELSE LET font == Index(typo, "fontFamily")
                 IN IF IsRaise(font) THEN Acc(a.m, a.seen, font.s)
                    ELSE IF Truthy(font) /\ IsStr(font) /\ font # Str("null")
                    THEN Acc(PutIfNone(a.m, <<"typography", "fontFamily", "heading">>, font),
                             a.seen, "")
                    ELSE a

\* Font family: fills heading and body where they are still None.
MergeFontFamily(a, typo) ==
    IF a.err # "" THEN a
    ELSE LET has == KeyIn(typo, "fontFamily")
         IN IF IsRaise(has) THEN Acc(a.m, a.seen, has.s)
            ELSE IF ~IsTrue(has) THEN a
            ELSE LET font == Index(typo, "fontFamily")
                 IN IF IsRaise(font) THEN Acc(a.m, a.seen, font.s)
                    ELSE IF Truthy(font) /\ IsStr(font) /\ font # Str("null")
                    THEN Acc(PutIfNone(PutIfNone(a.m, <<"typography", "fontFamily", "heading">>, font),
                                       <<"typography", "fontFamily", "body">>, font),
                             a.seen, "")
                    ELSE a

Hashable(v) == v.k \notin {"dict", "list"}

\* Mutant: a size is processed whether it was seen or not.
MergeFontSize_NoDedup(a, typo, key) ==
    IF a.err # "" THEN a
    ELSE LET has == KeyIn(typo, key)
         IN IF IsRaise(has) THEN Acc(a.m, a.seen, has.s)
            ELSE IF ~IsTrue(has) THEN a
            ELSE LET size == Index(typo, key)
                 IN IF IsRaise(size) THEN Acc(a.m, a.seen, size.s)
                    ELSE IF ~Usable(size) THEN a
                    ELSE IF ~Hashable(size) THEN Acc(a.m, a.seen, "TypeError")
                    ELSE LET bucket == IF Contains(Lower(key), "heading") THEN "4xl" ELSE "base"
                         IN Acc(PutIfMissing(a.m, <<"typography", "fontSize">>, bucket, size),
                                a.seen \cup {size}, "")

\* One iteration of the loop over ['headingSize', 'bodySize'].
MergeFontSize(a, typo, key) ==
    IF a.err # "" THEN a
    ELSE LET has == KeyIn(typo, key)
         IN IF IsRaise(has) THEN Acc(a.m, a.seen, has.s)
            ELSE IF ~IsTrue(has) THEN a
            ELSE LET size == Index(typo, key)
                 IN IF IsRaise(size) THEN Acc(a.m, a.seen, size.s)
                    ELSE IF ~Usable(size) THEN a
                    ELSE IF ~Hashable(size) THEN Acc(a.m, a.seen, "TypeError")
                    ELSE IF size \in a.seen THEN a
                    ELSE LET bucket == IF Contains(Lower(key), "heading") THEN "4xl" ELSE "base"
                         IN Acc(PutIfMissing(a.m, <<"typography", "fontSize">>, bucket, size),
                                a.seen \cup {size}, "")

\* The loop over typo['fontWeight'].items().
RECURSIVE MergeFontWeights(_, _, _)
MergeFontWeights(a, weights, keys) ==
    IF keys = <<>> THEN a
    ELSE LET val == weights.d[keys[1]]
             target_key == Lower(keys[1])
             slots == At(a.m, <<"typography", "fontWeight">>)
             next == IF Usable(val) /\ target_key \in DOMAIN slots.d
                     THEN Acc(PutIfNone(a.m, <<"typography", "fontWeight", target_key>>, val),
                              a.seen, "")
                     ELSE a
         IN MergeFontWeights(next, weights, Tail(keys))

MergeFontWeight(a, typo) ==
    IF a.err # "" THEN a
    ELSE LET has == KeyIn(typo, "fontWeight")
         IN IF IsRaise(has) THEN Acc(a.m, a.seen, has.s)
            ELSE IF ~IsTrue(has) THEN a
            ELSE LET weights == Index(typo, "fontWeight")
                 IN IF IsRaise(weights) THEN Acc(a.m, a.seen, weights.s)
                    ELSE IF IsDict(weights) THEN MergeFontWeights(a, weights, Keys(weights))
                    ELSE a

\* Mutant: bodySize is taken before headingSize.
MergeTypography_BodyFirst(a, toks) ==
    IF a.err # "" \/ "typography" \notin DOMAIN toks.d THEN a
    ELSE LET typo == toks.d["typography"]
         IN MergeFontWeight(
                MergeFontSize(MergeFontSize(MergeFontFamily(a, typo), typo, "bodySize"),
                              typo, "headingSize"),
                typo)

\* The typography of one result: font family, sizes, weights.
MergeTypography(a, toks) ==
    IF a.err # "" \/ "typography" \notin DOMAIN toks.d THEN a
    ELSE LET typo == toks.d["typography"]
         IN MergeFontWeight(
                MergeFontSize(MergeFontSize(MergeFontFamily(a, typo), typo, "headingSize"),
                              typo, "bodySize"),
                typo)

\* Mutant: 'gap' is looked for first.
SpacingBucket_GapFirst(key) ==
    IF Contains(Lower(key), "gap") THEN "4"
    ELSE IF Contains(Lower(key), "section") \/ Contains(Lower(key), "container") THEN "16"
    ELSE ""

\* The canonical spacing key a free-form key maps to ("" when it maps to none).
SpacingBucket(key) ==
    IF Contains(Lower(key), "section") \/ Contains(Lower(key), "container") THEN "16"
    ELSE IF Contains(Lower(key), "gap") THEN "4"
    ELSE ""

\* The loop over spacing.items().
RECURSIVE MergeSpacingKeys(_, _, _)
MergeSpacingKeys(a, spacing, keys) ==
    IF keys = <<>> THEN a
    ELSE LET val == spacing.d[keys[1]]
             bucket == SpacingBucket(keys[1])
             next == IF Usable(val) /\ bucket # ""
                     THEN Acc(PutIfMissing(a.m, <<"spacing">>, bucket, val), a.seen, "")
                     ELSE a
         IN MergeSpacingKeys(next, spacing, Tail(keys))

MergeSpacing(a, toks) ==
    IF a.err # "" \/ "spacing" \notin DOMAIN toks.d THEN a
    ELSE LET spacing == toks.d["spacing"]
         IN IF IsDict(spacing) THEN MergeSpacingKeys(a, spacing, Keys(spacing)) ELSE a

\* A single flat value written into bucket md of `dest`, first occurrence only.
MergeFlat(a, toks, src, dest) ==
    IF a.err # "" \/ src \notin DOMAIN toks.d THEN a
    ELSE IF Usable(toks.d[src])
         THEN Acc(PutIfMissing(a.m, <<dest>>, "md", toks.d[src]), a.seen, "")
         ELSE a

MergeNotes(a, toks) ==
    IF a.err # "" \/ "notes" \notin DOMAIN toks.d THEN a
    ELSE IF IsList(toks.d["notes"])
         THEN Acc(Put(a.m, <<"notes">>, List(a.m.d["notes"].l \o toks.d["notes"].l)), a.seen, "")
         ELSE a

\* Mutant: a failed result leaves no note.
RecordFailure_Silent(m, toks) == m

\* The branch of a failed result: one note naming the section and the error.
RecordFailure(m, toks) ==
    Put(m, <<"notes">>,
        List(Append(m.d["notes"].l,
               Str("Section " \o PyStr(Get(toks, "_section", Str("unknown")))
                   \o " failed: " \o PyStr(toks.d["error"])))))

\* Mutant: an identifier already recorded is not recorded again.
RecordSection_Dedup(m, toks) ==
    LET name == Get(toks, "_section", Str("unknown"))
    IN IF \E j \in 1..Len(m.d["_sections"].l) : m.d["_sections"].l[j] = name
       THEN m
       ELSE Put(m, <<"_sections">>, List(Append(m.d["_sections"].l, name)))

\* merged['_sections'].append(tokens.get('_section', 'unknown'))
RecordSection(m, toks) ==
    Put(m, <<"_sections">>,
        List(Append(m.d["_sections"].l, Get(toks, "_section", Str("unknown")))))

\* The value merging of one result (everything after the failure test).
MergeValues(a, toks) ==
    LET named == Acc(RecordSection(a.m, toks), a.seen, "")
    IN MergeNotes(
         MergeFlat(
           MergeFlat(
             MergeSpacing(MergeTypography(MergeColors(named, toks), toks), toks),
             toks, "borderRadius", "borderRadius"),
           toks, "shadow", "shadows"),
         toks)

\* Mutant: a failed result is noted and then merged like any other.
MergeSection_NoSkip(a, toks) ==
    IF "error" \in DOMAIN toks.d
    THEN MergeValues(Acc(RecordFailure(a.m, toks), a.seen, ""), toks)
    ELSE MergeValues(a, toks)

\* One iteration of the loop over section_tokens.
MergeSection(a, toks) ==
    IF "error" \in DOMAIN toks.d
    THEN Acc(RecordFailure(a.m, toks), a.seen, "")
    ELSE MergeValues(a, toks)

\* clean_nones(d)
RECURSIVE clean_nones(_)
clean_nones(v) ==
    IF IsDict(v)
    THEN Dict([key \in {x \in DOMAIN v.d : v.d[x] # None} |-> clean_nones(v.d[key])])
    ELSE v

\* The end of merge_section_tokens: nested Nones of colors and typography go.
CleanMerged(m) ==
    Put(Put(m, <<"colors">>, clean_nones(m.d["colors"])),
        <<"typography">>, clean_nones(m.d["typography"]))

\* main, section mode: the defaults-merge and the bookkeeping copied over it.
FinalizeSections(m) ==
    LET full == merge_with_defaults(m)
    IN Put(Put(Put(full, <<"_mode">>, Str("section")),
               <<"_sections">>, Get(m, "_sections", List(<<>>))),
           <<"_sectionCount">>, Get(m, "_sectionCount", Num(0)))

-----------------------------------------------------------------------------
(* Token Merge Engine: extract_tokens (the whole-document path) *)

\* The model's answer: no text, an exception of the call or of json.loads
\* (body is the Raise), or the parsed JSON value.
EmptyResponse == [st |-> "empty", body |-> None]
RaisedResponse(e) == [st |-> "raised", body |-> Raise(e)]
JsonResponse(v) == [st |-> "json", body |-> v]

\* The except branch: defaults with a single note.  str(e) is carried as the
\* name of the exception.
ExtractionFailed(e) ==
    Put(DEFAULT_TOKENS, <<"notes">>, List(<<Str("Extraction failed: " \o e)>>))

\* tokens['notes'] = tokens.get('notes', []) + errors
AddErrorNotes(toks, errors) ==
    LET own == Get(toks, "notes", List(<<>>))
    IN IF IsRaise(own) THEN own
       ELSE IF ~IsList(own) THEN Raise("TypeError")
       ELSE Put(toks, <<"notes">>, List(own.l \o errors.l))

\* The try block after the call: validate, note, merge with defaults.
ParseAndValidate(toks) ==
    LET errors == validate_tokens(toks)
    IN IF IsRaise(errors) THEN errors
       ELSE LET noted == IF errors.l # <<>> THEN AddErrorNotes(toks, errors) ELSE toks
            IN IF IsRaise(noted) THEN noted ELSE merge_with_defaults(noted)

\* extract_tokens(...), given what it found in its environment.
extract_tokens(key, images, resp) ==
    IF ~key THEN DEFAULT_TOKENS
    ELSE IF images = 0 THEN DEFAULT_TOKENS
    ELSE IF resp.st = "raised" THEN ExtractionFailed(resp.body.s)
    ELSE IF resp.st = "empty" THEN DEFAULT_TOKENS
    ELSE LET out == ParseAndValidate(resp.body)
         IN IF IsRaise(out) THEN ExtractionFailed(out.s) ELSE out

-----------------------------------------------------------------------------
(* Bounded inputs of the Context Priority Selector *)

\* The dimensions summary of the repository's tests (SAMPLE_DIMENSIONS).
SAMPLE_EXACT ==
    Dict(("container_max_width" :> Str("1280px")) @@ ("section_padding" :> Str("80px 0"))
      @@ ("gap" :> Str("32px"))
      @@ ("card_dimensions" :> D3("width", Str("400px"), "height", Str("300px"),
                                  "padding", Str("16px"))))
SAMPLE_TYPOGRAPHY ==
    Dict(("h1" :> Str("50px")) @@ ("h2" :> Str("38px")) @@ ("h3" :> Str("26px"))
      @@ ("body" :> Str("17px")))
SAMPLE_BY_SECTION ==
    D3("hero", D3("h1", Str("66px"), "h2", Str("46px"), "p", Str("19px")),
       "content", D3("h2", Str("34px"), "h3", Str("22px"), "p", Str("15px")),
       "footer", D1("p", Str("13px")))
SAMPLE_SECTIONS ==
    D3("hero", D2("found", Bool(TRUE), "containerWidth", Num(1200)),
       "content", D2("found", Bool(TRUE), "containerWidth", Num(1000)),
       "footer", D2("found", Bool(TRUE), "containerWidth", None))
SAMPLE_RESPONSIVE ==
    Dict(("desktop_breakpoint" :> Str("1400px")) @@ ("tablet_breakpoint" :> Str("800px"))
      @@ ("mobile_breakpoint" :> Str("360px"))
      @@ ("typography_scaling" :>
            D2("h1", D2("tablet", Str("40px"), "mobile", Str("30px")),
               "h2", D2("tablet", Str("29px"), "mobile", Str("25px")))))
SAMPLE_DIMENSIONS ==
    Dict(("EXACT_DIMENSIONS" :> SAMPLE_EXACT) @@ ("EXACT_TYPOGRAPHY" :> SAMPLE_TYPOGRAPHY)
      @@ ("TYPOGRAPHY_BY_SECTION" :> SAMPLE_BY_SECTION) @@ ("SECTIONS" :> SAMPLE_SECTIONS)
      @@ ("RESPONSIVE" :> SAMPLE_RESPONSIVE))

\* Summaries whose sub-fields are missing, null or of another shape.
DimensionsDocs ==
    { None,
      Dict(EmptyMap),
      SAMPLE_DIMENSIONS,
      D1("EXACT_TYPOGRAPHY", D1("h1", Str("50px"))),
      D1("EXACT_DIMENSIONS", D1("card_dimensions", None)),
      D1("EXACT_DIMENSIONS", D2("gap", None, "card_dimensions", Str("n/a"))),
      D1("EXACT_DIMENSIONS", None),
      D1("RESPONSIVE", D1("typography_scaling", None)),
      D1("RESPONSIVE", D1("typography_scaling", D1("h1", Str("fluid")))),
      D1("TYPOGRAPHY_BY_SECTION", D1("hero", None)),
      D2("EXACT_TYPOGRAPHY", None, "TYPOGRAPHY_BY_SECTION", SAMPLE_BY_SECTION),
      D1("SECTIONS", D1("hero", None)) }

Node(tag, role, children) ==
    D3("tagName", Str(tag), "role", role, "children", children)

\* The DOM hierarchy of the repository's tests (SAMPLE_HIERARCHY).
SAMPLE_ROOT ==
    Node("body", None, List(<<
        Node("header", Str("header-landmark"), List(<<Node("nav", Str("nav"), List(<<>>))>>)),
        Node("main", Str("main"), List(<<Node("section", Str("section"), List(<<>>))>>)),
        Node("footer", Str("footer-landmark"), List(<<>>)) >>))
SAMPLE_LANDMARKS ==
    Dict(("header" :> D1("tagName", Str("header"))) @@ ("main" :> D1("tagName", Str("main")))
      @@ ("footer" :> D1("tagName", Str("footer")))
      @@ ("nav" :> List(<<D1("tagName", Str("nav"))>>)) @@ ("aside" :> List(<<>>)))
Heading(level, section, text) ==
    D3("level", level, "section", Str(section), "text", Str(text))
SAMPLE_HEADINGS ==
    List(<<Heading(Num(1), "hero", "Welcome to Our Site"),
           Heading(Num(2), "content", "Features Section"),
           Heading(Num(3), "content", "Feature One")>>)
SAMPLE_HIERARCHY ==
    D3("root", SAMPLE_ROOT, "landmarks", SAMPLE_LANDMARKS, "headingTree", SAMPLE_HEADINGS)

HierarchyDocs ==
    { None,
      Dict(EmptyMap),
      SAMPLE_HIERARCHY,
      D1("stats", D1("totalNodes", Num(26))),
      D1("landmarks", D2("header", None, "aside", List(<<D1("tagName", Str("aside"))>>))),
      D1("landmarks", D1("aside", None)),
      D1("landmarks", D1("nav", None)),
      D1("landmarks", None),
      D1("headingTree", List(<<D1("text", Str("Untitled"))>>)),
      D1("headingTree", List(<<Heading(None, "hero", "Welcome")>>)),
      D1("headingTree", List(<<Heading(Str("2"), "hero", "Welcome")>>)),
      D1("headingTree", None),
      D1("root", Node("main", Str("main"), None)) }

ShortTexts == {None, Str(""), Str("<main>{x}</main>")}
SummaryTexts == {None, Str(""), Str("## Content Counts\n- cards: 3")}

\* The leaf fields a dimensions summary can carry, as key paths.
DimensionPaths ==
    { <<"EXACT_DIMENSIONS", "container_max_width">>,
      <<"EXACT_DIMENSIONS", "section_padding">>,
      <<"EXACT_DIMENSIONS", "gap">>,
      <<"EXACT_DIMENSIONS", "card_dimensions", "width">>,
      <<"EXACT_DIMENSIONS", "card_dimensions", "height">>,
      <<"EXACT_DIMENSIONS", "card_dimensions", "padding">>,
      <<"EXACT_TYPOGRAPHY", "h1">>, <<"EXACT_TYPOGRAPHY", "h2">>,
      <<"EXACT_TYPOGRAPHY", "h3">>, <<"EXACT_TYPOGRAPHY", "body">>,
      <<"TYPOGRAPHY_BY_SECTION", "hero", "h1">>,
      <<"TYPOGRAPHY_BY_SECTION", "hero", "h2">>,
      <<"TYPOGRAPHY_BY_SECTION", "hero", "p">>,
      <<"TYPOGRAPHY_BY_SECTION", "content", "h2">>,
      <<"TYPOGRAPHY_BY_SECTION", "content", "h3">>,
      <<"TYPOGRAPHY_BY_SECTION", "content", "p">>,
      <<"TYPOGRAPHY_BY_SECTION", "footer", "p">>,
      <<"RESPONSIVE", "desktop_breakpoint">>,
      <<"RESPONSIVE", "tablet_breakpoint">>,
      <<"RESPONSIVE", "mobile_breakpoint">>,
      <<"RESPONSIVE", "typography_scaling", "h1", "tablet">>,
      <<"RESPONSIVE", "typography_scaling", "h1", "mobile">>,
      <<"RESPONSIVE", "typography_scaling", "h2", "tablet">>,
      <<"RESPONSIVE", "typography_scaling", "h2", "mobile">> }

\* The value stored at a path: a text that names the path, so that no two
\* fields and no literal default share a value.
RECURSIVE PathText(_)
PathText(path) ==
    IF Len(path) = 1 THEN path[1] ELSE path[1] \o "/" \o PathText(Tail(path))

\* The document that carries exactly the leaf fields `paths` (given as pairs
\* <<remaining keys, full path>>).
RECURSIVE MakeDoc(_)
MakeDoc(entries) ==
    Dict([key \in {e[1][1] : e \in entries} |->
            LET here == {e \in entries : e[1][1] = key}
            IN IF \E e \in here : Len(e[1]) = 1
               THEN Str(PathText((CHOOSE e \in here : Len(e[1]) = 1)[2]))
               ELSE MakeDoc({<<Tail(e[1]), e[2]>> : e \in here})])

DocWithFields(paths) == MakeDoc({<<q, q>> : q \in paths})

\* The subsets of S with exactly n elements.
RECURSIVE KSubsets(_, _)
KSubsets(S, n) ==
    IF n = 0 THEN {{}}
    ELSE IF S = {} THEN {}
    ELSE LET x == CHOOSE y \in S : TRUE
         IN KSubsets(S \ {x}, n) \cup {X \cup {x} : X \in KSubsets(S \ {x}, n - 1)}

\* How many fields a summary may carry, or lack, in the field-subset runs.
MaxChanged == 2

FieldSubsets ==
    LET few == UNION {KSubsets(DimensionPaths, n) : n \in 0..MaxChanged}
    IN few \cup {DimensionPaths \ X : X \in few}

InitFields ==
    /\ pc = "select"
    /\ html_content = None
    /\ css_content = None
    /\ dimensions \in {DocWithFields(F) : F \in FieldSubsets}
    /\ content_summary = None
    /\ hierarchy \in {None, SAMPLE_HIERARCHY}
    /\ section_name = ""
    /\ prompt = NoPayload
    /\ IdleHex /\ IdleEngine /\ IdleHost

InitSelector ==
    /\ pc = "select"
    /\ html_content \in ShortTexts
    /\ css_content \in ShortTexts
    /\ dimensions \in DimensionsDocs
    /\ content_summary \in SummaryTexts
    /\ hierarchy \in HierarchyDocs
    /\ section_name = ""
    /\ prompt = NoPayload
    /\ IdleHex /\ IdleEngine /\ IdleHost

\* analyze_structure's call of build_structure_prompt.
BuildStructurePrompt ==
    /\ pc = "select"
    /\ prompt' = build_structure_prompt(html_content, css_content, dimensions,
                                        content_summary, hierarchy)
    /\ pc' = "selected"
    /\ UNCHANGED <<html_content, css_content, dimensions, content_summary, hierarchy,
                   section_name, hexVars, engineVars, hostVars>>

NextSelector == BuildStructurePrompt

SpecSelector == InitSelector /\ [][NextSelector]_vars

SpecFields == InitFields /\ [][NextSelector]_vars

\* How far over a budget the oversized texts of the truncation runs reach.
MaxOver == 2

\* A text of n >= 1 units whose last unit differs from all the others.
TextOfLength(n) == Rep("a", n - 1) \o "z"

NearBudget(budget) == {budget - 1} \cup {budget + i : i \in 0..MaxOver}

HtmlTexts ==
    {None, Str(""), Str("<p>")} \cup {Str(TextOfLength(n)) : n \in NearBudget(HTML_BUDGET)}
CssTexts ==
    {None, Str(""), Str("p{}")}
    \cup {Str(TextOfLength(n)) :
            n \in NearBudget(SECTION_CSS_BUDGET) \cup NearBudget(EXTRACTION_CSS_BUDGET)
                  \cup NearBudget(CSS_BUDGET)}

SectionNames == {"section-0-header", "section-2", "section-11-Pricing-FAQ.png"}

InitTruncate ==
    /\ pc = "select"
    /\ html_content \in HtmlTexts
    /\ css_content \in CssTexts
    /\ dimensions = None
    /\ content_summary = None
    /\ hierarchy = None
    /\ section_name \in SectionNames
    /\ prompt = NoPayload
    /\ IdleHex /\ IdleEngine /\ IdleHost

\* extract_tokens' call of build_extraction_prompt.
BuildExtractionPrompt ==
    /\ pc = "select"
    /\ prompt' = build_extraction_prompt(css_content)
    /\ pc' = "extraction_built"
    /\ UNCHANGED <<html_content, css_content, dimensions, content_summary, hierarchy,
                   section_name, hexVars, engineVars, hostVars>>

\* extract_section_tokens' call of build_section_prompt.
BuildSectionPrompt ==
    /\ pc = "select"
    /\ prompt' = build_section_prompt(section_name, css_content)
    /\ pc' = "section_built"
    /\ UNCHANGED <<html_content, css_content, dimensions, content_summary, hierarchy,
                   section_name, hexVars, engineVars, hostVars>>

NextTruncate == BuildStructurePrompt \/ BuildExtractionPrompt \/ BuildSectionPrompt

SpecTruncate == InitTruncate /\ [][NextTruncate]_vars

-----------------------------------------------------------------------------
(* Bounded inputs of the validator *)

MaxHexLen == 6

HexAlphabet == {"0", "a", "F", "g", "#"}

RECURSIVE StringsUpTo(_, _)
StringsUpTo(alphabet, n) ==
    IF n = 0 THEN {""}
    ELSE LET S == StringsUpTo(alphabet, n - 1)
         IN S \cup {s \o c : s \in S, c \in alphabet}

HexInputs(n) ==
    {p \o b \o q : p \in {"", "#"}, b \in StringsUpTo(HexAlphabet, n),
                   q \in {"", "0", " ", "\n"}}

InitHex ==
    /\ pc = "hex_start"
    /\ color \in {Str(s) : s \in HexInputs(MaxHexLen)}
    /\ hex_ok = Idle
    /\ IdleSelector /\ IdleEngine /\ IdleHost

ValidateHexColor ==
    /\ pc = "hex_start"
    /\ hex_ok' = validate_hex_color(color)
    /\ pc' = "hex_done"
    /\ UNCHANGED <<color, selectorVars, engineVars, hostVars>>

NextHex == ValidateHexColor

SpecHex == InitHex /\ [][NextHex]_vars

-----------------------------------------------------------------------------
(* Bounded inputs of the Token Merge Engine *)

MaxSections == 2

COLOR_A == Str("#FF0000")
COLOR_B == Str("#00ff00")
COLOR_NEWLINE == Str("#ffffff\n")

\* Values a model may put where a color is expected.
ColorValues ==
    {None, Str(""), Str("null"), Str("blue"), COLOR_A, COLOR_B, COLOR_NEWLINE, Num(5)}

\* What a section's JSON may hold besides '_section'.
SectionBodies ==
    {D1("colors", D1("background", v)) : v \in ColorValues}
    \cup {D1("colors", D1(key, v)) :
            key \in {"text", "heading", "accent", "border"},
            v \in {None, Str("blue"), COLOR_A}}
    \cup {D1("colors", D2("background", COLOR_A, "accent", COLOR_B)),
          D1("colors", D2("background", COLOR_B, "accent", Str("blue"))),
          D1("colors", None),
          D1("colors", Str("background")),
          D1("colors", List(<<Str("background")>>)),
          Dict(EmptyMap),
          D1("error", Str("Empty response")),
          D2("error", Str("quota"), "colors", D1("background", COLOR_B)),
          D2("colors", D1("background", Str("blue")), "notes", List(<<Str("low contrast")>>)),
          D1("typography", D3("fontFamily", Str("Inter"), "headingSize", Str("48px"),
                              "bodySize", Str("16px"))),
          D1("typography", D2("headingSize", Str("16px"),
                              "fontWeight", D2("Bold", Num(700), "light", Num(300)))),
          D3("spacing", D2("sectionPadding", Str("64px"), "elementGap", Str("16px")),
             "borderRadius", Str("8px"), "shadow", Str("null"))}

\* The result extract_section_tokens returns for the i-th image: the parsed
\* JSON with '_section' set to the image's stem.
SectionResult(i, body) == Put(body, <<"_section">>, Str("section-" \o ToString(i - 1)))

\* The results main collects from n images whose answers are f[1] .. f[n].
SectionResults(n, f) == [i \in 1..n |-> SectionResult(i, f[i])]

COLOR_SLOTS ==
    << <<"colors", "primary">>, <<"colors", "secondary">>, <<"colors", "accent">>,
       <<"colors", "background">>, <<"colors", "surface">>, <<"colors", "border">>,
       <<"colors", "text", "primary">>, <<"colors", "text", "secondary">>,
       <<"colors", "text", "muted">> >>

SlotSet == {COLOR_SLOTS[i] : i \in 1..Len(COLOR_SLOTS)}

\* What a whole-document JSON answer may be.
ViewportBodies ==
    {Put(Dict(EmptyMap), slot, v) :
        slot \in SlotSet, v \in {COLOR_A, Str("blue"), None, COLOR_NEWLINE}}
    \cup {Put(D1("notes", List(<<Str("own note")>>)), <<"colors">>,
              Dict(("primary" :> Str("red")) @@ ("accent" :> COLOR_A)
                @@ ("text" :> D2("muted", Str("#12345"), "primary", COLOR_B)))),
          D2("colors", D1("primary", Str("red")), "notes", Str("own note")),
          D2("colors", D1("primary", COLOR_A), "notes", Str("own note")),
          D2("colors", D1("surface", Str("#abc")),
             "typography", D1("fontFamily", D1("heading", Str("Inter, sans-serif")))),
          D2("colors", D2("primary", Str("red"), "border", None), "spacing", D1("4", Str("1rem"))),
          D1("colors", D2("primary", COLOR_A, "text", Str("#111111"))),
          D1("colors", None),
          D1("typography", None),
          D1("spacing", Str("8px")),
          D1("spacing", D1("4", Str("1rem"))),
          Dict(EmptyMap),
          List(<<>>),
          None}

Responses ==
    {EmptyResponse, RaisedResponse("JSONDecodeError"), RaisedResponse("ClientError")}
    \cup {JsonResponse(b) : b \in ViewportBodies}

\* main in section mode, at the call of merge_section_tokens: the results
\* are collected, the accumulator is fresh.
InitSections ==
    /\ pc = "merge"
    /\ \E n \in 1..MaxSections : \E f \in [1..n -> SectionBodies] :
          section_tokens = SectionResults(n, f)
    /\ idx = 0
    /\ merged = InitialMerged(section_tokens)
    /\ seen_sizes = {}
    /\ tokens = Idle
    /\ IdleViewport

\* main in viewport mode, at the call of extract_tokens.
InitViewport ==
    /\ pc = "extract"
    /\ api_key \in BOOLEAN
    /\ available_images \in 0..1
    /\ response \in Responses
    /\ IdleMerge

InitEngine ==
    /\ IdleSelector /\ IdleHex /\ IdleHost
    /\ (InitSections \/ InitViewport)

\* One iteration of merge_section_tokens' loop; an exception leaves the
\* function (and main).
MergeStep ==
    /\ pc = "merge"
    /\ idx < Len(section_tokens)
    /\ LET a == MergeSection(Acc(merged, seen_sizes, ""), section_tokens[idx + 1])
       IN IF a.err = ""
          THEN /\ merged' = a.m
               /\ seen_sizes' = a.seen
               /\ idx' = idx + 1
               /\ pc' = "merge"
               /\ UNCHANGED tokens
          ELSE /\ tokens' = Raise(a.err)
               /\ pc' = "raised"
               /\ UNCHANGED <<merged, seen_sizes, idx>>
    /\ UNCHANGED <<section_tokens, viewportVars, selectorVars, hexVars, hostVars>>

\* The end of merge_section_tokens: clean_nones and return.
MergeReturn ==
    /\ pc = "merge"
    /\ idx = Len(section_tokens)
    /\ merged' = CleanMerged(merged)
    /\ pc' = "merged"
    /\ UNCHANGED <<section_tokens, idx, seen_sizes, tokens, viewportVars, selectorVars, hexVars, hostVars>>

\* main, section mode: the document that is saved.
MergeWithDefaults ==
    /\ pc = "merged"
    /\ tokens' = FinalizeSections(merged)
    /\ pc' = "saved"
    /\ UNCHANGED <<section_tokens, idx, merged, seen_sizes, viewportVars, selectorVars, hexVars, hostVars>>

\* main, viewport mode: extract_tokens and the mode stamp.
ExtractTokens ==
    /\ pc = "extract"
    /\ tokens' = Put(extract_tokens(api_key, available_images, response),
                     <<"_mode">>, Str("viewport"))
    /\ pc' = "extracted"
    /\ UNCHANGED <<section_tokens, idx, merged, seen_sizes, viewportVars, selectorVars, hexVars, hostVars>>

NextEngine == MergeStep \/ MergeReturn \/ MergeWithDefaults \/ ExtractTokens

SpecEngine == InitEngine /\ [][NextEngine]_vars

-----------------------------------------------------------------------------
(* Bounded inputs of merge_section_tokens called on longer sequences *)

MaxEntries == 3

COLOR_WHITE == Str("#FFFFFF")

\* Section answers: a header, a hero, failed sections (one that still
\* carries values and notes), an empty answer, an answer with a rejected
\* color and a note of its own, an answer whose accent ends in a newline.
EntryBodies ==
    {D1("colors", D2("accent", COLOR_A, "background", None)),
     D3("colors", D2("background", COLOR_WHITE, "accent", COLOR_B),
        "typography", D2("fontFamily", Str("Georgia"), "headingSize", Str("40px")),
        "spacing", D1("elementGap", Str("16px"))),
     D1("error", Str("timeout")),
     Dict(("error" :> Str("quota"))
       @@ ("colors" :> D2("background", COLOR_B, "accent", COLOR_B))
       @@ ("typography" :> D3("fontFamily", Str("Inter"), "headingSize", Str("48px"),
                              "fontWeight", D1("bold", Num(700))))
       @@ ("spacing" :> D1("sectionPadding", Str("64px")))
       @@ ("borderRadius" :> Str("8px"))
       @@ ("shadow" :> Str("0 1px 2px #000"))
       @@ ("notes" :> List(<<Str("partial")>>))),
     Dict(EmptyMap),
     D2("colors", D1("accent", Str("blue")), "notes", List(<<Str("low contrast")>>)),
     D1("colors", D1("accent", COLOR_NEWLINE))}

\* Section identifiers in page order.
PageNames == <<"header", "hero", "footer", "pricing", "faq">>

\* merge_section_tokens called with zero or more results; every entry carries
\* its page name, or one entry after the first carries the first page name
\* again.
InitSequence ==
    /\ pc = "merge"
    /\ \E n \in 0..MaxEntries :
         \E f \in [1..n -> EntryBodies] :
           \E again \in {0} \cup 2..n :
             section_tokens =
                [i \in 1..n |->
                   Put(f[i], <<"_section">>,
                       Str(IF i = again THEN PageNames[1] ELSE PageNames[i]))]
    /\ idx = 0
    /\ merged = InitialMerged(section_tokens)
    /\ seen_sizes = {}
    /\ tokens = Idle
    /\ IdleViewport
    /\ IdleSelector /\ IdleHex /\ IdleHost

NextSequence == MergeStep \/ MergeReturn \/ MergeWithDefaults

SpecSequence == InitSequence /\ [][NextSequence]_vars

-----------------------------------------------------------------------------
(* Bounded inputs of merge_section_tokens: typography, spacing, radius, shadow *)

MaxResults == 2

\* Section answers about type and space: font families (a second one, a
\* null one, the text 'null', one that is no text), sizes that repeat under
\* the other label, within one answer and across answers, sizes that are
\* null, empty or 'null', weights in any case and outside the four names,
\* spacing keys of every class (one of two classes, one of none), values
\* that are null or 'null', flat radius and shadow values, a failed result
\* that carries values, colors, and a typography that is null.
ScaleBodies ==
    {D1("typography", D3("fontFamily", Str("Inter"), "headingSize", Str("48px"),
                         "bodySize", Str("16px"))),
     D1("typography", D3("fontFamily", Str("Georgia"), "headingSize", Str("16px"),
                         "bodySize", Str("48px"))),
     D1("typography", D2("headingSize", Str("32px"), "bodySize", Str("32px"))),
     D1("typography", D2("fontFamily", None, "bodySize", Str("18px"))),
     D1("typography", D3("fontFamily", Str("null"), "headingSize", Str("null"),
                         "bodySize", Str(""))),
     D1("typography", D2("fontFamily", List(<<Str("Inter")>>),
                         "fontWeight", D3("Bold", Num(700), "NORMAL", Num(400),
                                          "light", Num(300)))),
     D1("typography", D2("headingSize", None,
                         "fontWeight", D3("bold", Num(800), "medium", None,
                                          "semibold", Str("null")))),
     D1("typography", None),
     D1("spacing", D2("sectionPadding", Str("64px"), "elementGap", Str("16px"))),
     D1("spacing", D3("ContainerWidth", Str("1200px"), "GAP", Str("8px"),
                      "margin", Str("4px"))),
     D1("spacing", D1("sectionGap", Str("32px"))),
     D1("spacing", D3("containerPadding", None, "gap", Str("null"), "Section", Num(0))),
     D1("spacing", Str("64px")),
     D2("borderRadius", Str("8px"), "shadow", Str("0 1px 2px #000")),
     D3("borderRadius", Str("4px"), "shadow", Str("null"),
        "notes", List(<<Str("rounded cards")>>)),
     D3("error", Str("quota"),
        "typography", D3("fontFamily", Str("Roboto"), "headingSize", Str("40px"),
                         "bodySize", Str("14px")),
        "spacing", D1("sectionPadding", Str("96px"))),
     D1("colors", D2("accent", COLOR_A, "background", COLOR_B)),
     D1("colors", D3("accent", COLOR_B, "background", COLOR_A, "text", COLOR_A))}

\* main in section mode, at the call of merge_section_tokens with the
\* results of up to MaxResults images.
InitScales ==
    /\ pc = "merge"
    /\ \E n \in 1..MaxResults : \E f \in [1..n -> ScaleBodies] :
          section_tokens = SectionResults(n, f)
    /\ idx = 0
    /\ merged = InitialMerged(section_tokens)
    /\ seen_sizes = {}
    /\ tokens = Idle
    /\ IdleViewport
    /\ IdleSelector /\ IdleHex /\ IdleHost

NextScales == MergeStep \/ MergeReturn \/ MergeWithDefaults

SpecScales == InitScales /\ [][NextScales]_vars

-----------------------------------------------------------------------------
(* Stylesheet projection: generate_tokens_css *)

FONT_SIZE_KEYS == <<"xs", "sm", "base", "lg", "xl", "2xl", "3xl", "4xl">>
FONT_WEIGHT_KEYS == <<"normal", "medium", "semibold", "bold">>
LINE_HEIGHT_KEYS == <<"tight", "normal", "relaxed">>
SPACE_KEYS == <<"1", "2", "3", "4", "6", "8", "12", "16">>
RADIUS_KEYS == <<"sm", "md", "lg", "full">>
SHADOW_KEYS == <<"sm", "md", "lg">>

\* One appended line f"  --{name}: {value};" before formatting: the name and
\* the value looked up (or the exception the lookup raised).
CssVar(name, group, key, default) == [name |-> name, value |-> Get(group, key, default)]

\* for key in [...]: default = DEFAULT_TOKENS[...].get(key, fallback);
\* lines.append(f"  --{prefix}{key}: {group.get(key, default)};")
CssLoop(prefix, group, keys, defaults, fallback) ==
    [i \in 1..Len(keys) |->
        CssVar(prefix \o keys[i], group, keys[i], Get(defaults, keys[i], fallback))]

\* The text of one declaration.
CssLine(var) == "  --" \o var.name \o ": " \o PyStr(var.value) \o ";"

CssLines(decls) == [i \in 1..Len(decls) |-> CssLine(decls[i])]

\* generate_tokens_css(tokens): the stylesheet text, or the exception of the
\* first lookup on something that is not a mapping.
generate_tokens_css(toks) ==
    LET colors == Get(toks, "colors", Dict(EmptyMap))
        text_colors == Get(colors, "text", Dict(EmptyMap))
        typography == Get(toks, "typography", Dict(EmptyMap))
        font_family == Get(typography, "fontFamily", Dict(EmptyMap))
        font_sizes == Get(typography, "fontSize", Dict(EmptyMap))
        font_weights == Get(typography, "fontWeight", Dict(EmptyMap))
        line_heights == Get(typography, "lineHeight", Dict(EmptyMap))
        spacing == Get(toks, "spacing", Dict(EmptyMap))
        border_radius == Get(toks, "borderRadius", Dict(EmptyMap))
        shadows == Get(toks, "shadows", Dict(EmptyMap))
        color_decls ==
            << CssVar("color-primary", colors, "primary", Str("#2563eb")),
               CssVar("color-secondary", colors, "secondary", Str("#64748b")),
               CssVar("color-accent", colors, "accent", Str("#f59e0b")),
               CssVar("color-background", colors, "background", Str("#ffffff")),
               CssVar("color-surface", colors, "surface", Str("#f8fafc")),
               CssVar("color-text-primary", text_colors, "primary", Str("#0f172a")),
               CssVar("color-text-secondary", text_colors, "secondary", Str("#475569")),
               CssVar("color-text-muted", text_colors, "muted", Str("#94a3b8")),
               CssVar("color-border", colors, "border", Str("#e2e8f0")) >>
        typography_decls ==
            << CssVar("font-heading", font_family, "heading", Str("Inter, sans-serif")),
               CssVar("font-body", font_family, "body", Str("Inter, sans-serif")) >>
            \o CssLoop("font-size-", font_sizes, FONT_SIZE_KEYS,
                       At(DEFAULT_TOKENS, <<"typography", "fontSize">>), Str("16px"))
            \o CssLoop("font-weight-", font_weights, FONT_WEIGHT_KEYS,
                       At(DEFAULT_TOKENS, <<"typography", "fontWeight">>), Num(400))
            \o CssLoop("line-height-", line_heights, LINE_HEIGHT_KEYS,
                       At(DEFAULT_TOKENS, <<"typography", "lineHeight">>), Float("1.5"))
        space_decls == CssLoop("space-", spacing, SPACE_KEYS,
                              At(DEFAULT_TOKENS, <<"spacing">>), Str("16px"))
        radius_decls == CssLoop("radius-", border_radius, RADIUS_KEYS,
                               At(DEFAULT_TOKENS, <<"borderRadius">>), Str("8px"))
        shadow_decls == CssLoop("shadow-", shadows, SHADOW_KEYS,
                               At(DEFAULT_TOKENS, <<"shadows">>),
                               Str("0 1px 2px rgba(0,0,0,0.05)"))
        all == color_decls \o typography_decls \o space_decls \o radius_decls \o shadow_decls
        err == FirstRaise([i \in 1..Len(all) |-> all[i].value])
    IN IF IsRaise(err) THEN err
       ELSE Str(JoinLines(
                << "/* Design Tokens - Auto-generated */",
                   "/* Edit values below to customize the design */",
                   "",
                   ":root {",
                   "  /* Colors */" >>
                \o CssLines(color_decls)
                \o << "", "  /* Typography */" >> \o CssLines(typography_decls)
                \o << "", "  /* Spacing */" >> \o CssLines(space_decls)
                \o << "", "  /* Border Radius */" >> \o CssLines(radius_decls)
                \o << "", "  /* Shadows */" >> \o CssLines(shadow_decls)
                \o << "}", "" >>))

\* What a whole-document JSON answer may be, for the stylesheet: categories
\* and keys inside and outside the stylesheet's fixed set.
CssBodies ==
    {D1("colors", D2("primary", COLOR_A, "brand", COLOR_B)),
     D1("colors", D2("border", COLOR_B, "text", D2("muted", COLOR_A, "link", COLOR_B))),
     D1("colors", D2("primary", COLOR_A, "text", Str("#111111"))),
     D1("typography", D2("fontFamily", D1("body", Str("Georgia, serif")),
                         "fontSize", D2("4xl", Str("40px"), "5xl", Str("48px")))),
     D1("typography", D2("fontWeight", D1("bold", Num(800)),
                         "lineHeight", D2("tight", Float("1.1"), "loose", Num(2)))),
     D1("typography", None),
     D1("typography", D1("fontSize", Str("16px"))),
     D1("spacing", D2("16", Str("4rem"), "24", Str("6rem"))),
     D1("spacing", Str("8px")),
     D2("borderRadius", D2("full", Str("50%"), "xl", Str("24px")),
        "shadows", D2("lg", Str("none"), "xl", Str("none"))),
     D2("shadows", None, "breakpoints", D1("md", Str("768px"))),
     D1("borderRadius", List(<<Str("4px")>>)),
     Dict(EmptyMap)}

CssResponses == {EmptyResponse} \cup {JsonResponse(b) : b \in CssBodies}

\* main at the call of merge_section_tokens or of extract_tokens, before the
\* documents are written.
InitCss ==
    /\ IdleSelector /\ IdleHex /\ IdleHost
    /\ \/ /\ pc = "merge"
          /\ \E f \in [1..1 -> ScaleBodies] : section_tokens = SectionResults(1, f)
          /\ idx = 0
          /\ merged = InitialMerged(section_tokens)
          /\ seen_sizes = {}
          /\ tokens = Idle
          /\ IdleViewport
       \/ /\ pc = "extract"
          /\ api_key = TRUE
          /\ available_images = 1
          /\ response \in CssResponses
          /\ IdleMerge

\* main: css_output = generate_tokens_css(tokens), after design-tokens.json
\* was written; an exception leaves main before tokens.css is written.
GenerateCss ==
    /\ pc \in {"saved", "extracted"}
    /\ css_output' = generate_tokens_css(tokens)
    /\ pc' = IF IsRaise(css_output') THEN "raised" ELSE "css_saved"
    /\ UNCHANGED <<mergeVars, viewportVars, selectorVars, hexVars, heapVars, dirVars, envVars>>

NextCss == MergeStep \/ MergeReturn \/ MergeWithDefaults \/ ExtractTokens \/ GenerateCss

SpecCss == InitCss /\ [][NextCss]_vars

-----------------------------------------------------------------------------
(* Environment resolution: load_env (utils/env.py) *)

\* get_env_search_paths(): the directories searched for a .env file, in
\* order.
get_env_search_paths == <<"cwd", "SKILL_DIR", "~/.claude/skills", "~/.claude">>

\* The characters str.strip() removes.
Whitespace == {" ", "\t", "\n", "\r"}

\* s.lstrip() and s.rstrip()
RECURSIVE LStrip(_)
LStrip(s) ==
    IF Len(s) > 0 /\ CharAt(s, 1) \in Whitespace THEN LStrip(SubSeq(s, 2, Len(s))) ELSE s

RECURSIVE RStrip(_)
RStrip(s) ==
    IF Len(s) > 0 /\ CharAt(s, Len(s)) \in Whitespace THEN RStrip(SubSeq(s, 1, Len(s) - 1))
    ELSE s

\* s.strip()
Strip(s) == RStrip(LStrip(s))

StartsWith(s, p) == Len(s) >= Len(p) /\ SubSeq(s, 1, Len(p)) = p
EndsWith(s, p) == Len(s) >= Len(p) /\ SubSeq(s, Len(s) - Len(p) + 1, Len(s)) = p

\* The value of a line after its quotes are removed: value[1:-1] when the
\* value starts and ends with the same kind of quote.
Unquote(value) ==
    IF \/ StartsWith(value, "\"") /\ EndsWith(value, "\"")
       \/ StartsWith(value, "'") /\ EndsWith(value, "'")
    THEN SubSeq(value, 2, Len(value) - 1)
    ELSE value

\* result[key] = value on a dict kept as the sequence of its items: a key
\* that is present keeps its place and takes the new value.
SetResult(result, key, value) ==
    IF \E i \in 1..Len(result) : result[i].key = key
    THEN [i \in 1..Len(result) |->
            IF result[i].key = key THEN [key |-> key, value |-> value] ELSE result[i]]
    ELSE Append(result, [key |-> key, value |-> value])

\* One iteration of parse_env_file's loop over the lines of the file.
ParseLine(result, raw) ==
    LET line == Strip(raw)
    IN IF line = "" \/ StartsWith(line, "#") THEN result
       ELSE IF Contains(line, "=")
       THEN LET i == CHOOSE j \in 1..Len(line) :
                         CharAt(line, j) = "=" /\ \A m \in 1..(j - 1) : CharAt(line, m) # "="
            IN SetResult(result, Strip(SubSeq(line, 1, i - 1)),
                       Unquote(Strip(SubSeq(line, i + 1, Len(line)))))
       ELSE result

RECURSIVE ParseLines(_, _)
ParseLines(result, lines) ==
    IF lines = <<>> THEN result ELSE ParseLines(ParseLine(result, Head(lines)), Tail(lines))

\* A .env path: nothing there, something that exists and cannot be opened
\* for reading (a directory), or a file with a text.
NoFile == [exists |-> FALSE, readable |-> FALSE, text |-> ""]
Unreadable == [exists |-> TRUE, readable |-> FALSE, text |-> ""]
EnvFile(text) == [exists |-> TRUE, readable |-> TRUE, text |-> text]

\* parse_env_file(file_path): the items of the file, in the order of the
\* dict; a file that cannot be read gives {}. The lines are the text's pieces
\* between newlines; the empty piece after a final newline is skipped as an
\* empty line.
parse_env_file(file) ==
    IF ~file.readable THEN <<>> ELSE ParseLines(<<>>, Split(file.text, "\n"))

\* The loop of load_env over parsed.items(): os.environ after the first n
\* items. Setting a variable with an empty name raises OSError (EINVAL) and
\* leaves the loop.
RECURSIVE SetVars(_, _)
SetVars(env, items) ==
    IF items = <<>> THEN [environ |-> env, err |-> ""]
    ELSE LET key == Head(items).key
         IN IF key \in DOMAIN env THEN SetVars(env, Tail(items))
            ELSE IF key = "" THEN [environ |-> env, err |-> "OSError"]
            ELSE SetVars((key :> Head(items).value) @@ env, Tail(items))

\* The path of the .env file of the i-th search directory.
EnvPath(i) == Str(get_env_search_paths[i] \o "/.env")

\* What the .env of the i-th search directory may be.
EnvFiles(i) ==
    {NoFile, Unreadable,
     EnvFile(""),
     EnvFile("KEY=v" \o ToString(i) \o "\n"),
     EnvFile(" KEY = \"q " \o ToString(i) \o "\" \nK2='s'\n# K3=c\n\nNOEQ\n"),
     EnvFile("KEY=a\nK2=\"\nKEY=b" \o ToString(i)),
     EnvFile("K2=a" \o ToString(i) \o "\n=v\nKEY=b\n")}

\* What the process environment may hold at the call.
Environs == {EmptyMap, "KEY" :> "set", "KEY" :> "", ("K2" :> "x") @@ ("HOME" :> "/root")}

\* A script at its call of load_env().
InitEnv ==
    /\ pc = "load_env"
    /\ environ \in Environs
    /\ \E f1 \in EnvFiles(1), f2 \in EnvFiles(2), f3 \in EnvFiles(3), f4 \in EnvFiles(4) :
          dotenv = <<f1, f2, f3, f4>>
    /\ dir_path = 1
    /\ opened = <<>>
    /\ env_file = Idle
    /\ IdleSelector /\ IdleHex /\ IdleMerge /\ IdleViewport /\ IdleHeap /\ IdleDir
    /\ css_output = Idle

\* load_env's loop: a directory without .env is passed over.
LoadEnvSkip ==
    /\ pc = "load_env"
    /\ dir_path <= Len(get_env_search_paths)
    /\ ~dotenv[dir_path].exists
    /\ dir_path' = dir_path + 1
    /\ UNCHANGED <<pc, environ, dotenv, opened, env_file>>
    /\ UNCHANGED <<selectorVars, hexVars, engineVars, heapVars, dirVars, css_output>>

\* load_env's loop: the first .env that exists is parsed, its variables that
\* are not in os.environ are set, and its path is returned.
LoadEnvFile ==
    /\ pc = "load_env"
    /\ dir_path <= Len(get_env_search_paths)
    /\ dotenv[dir_path].exists
    /\ opened' = Append(opened, EnvPath(dir_path).s)
    /\ LET out == SetVars(environ, parse_env_file(dotenv[dir_path]))
       IN /\ environ' = out.environ
          /\ IF out.err = ""
             THEN env_file' = EnvPath(dir_path) /\ pc' = "loaded"
             ELSE env_file' = Raise(out.err) /\ pc' = "raised"
    /\ UNCHANGED <<dotenv, dir_path>>
    /\ UNCHANGED <<selectorVars, hexVars, engineVars, heapVars, dirVars, css_output>>

\* load_env: no directory has a .env.
LoadEnvNone ==
    /\ pc = "load_env"
    /\ dir_path > Len(get_env_search_paths)
    /\ env_file' = None
    /\ pc' = "loaded"
    /\ UNCHANGED <<environ, dotenv, dir_path, opened>>
    /\ UNCHANGED <<selectorVars, hexVars, engineVars, heapVars, dirVars, css_output>>

NextEnv == LoadEnvSkip \/ LoadEnvFile \/ LoadEnvNone

SpecEnv == InitEnv /\ [][NextEnv]_vars

-----------------------------------------------------------------------------
(* The process's objects: DEFAULT_TOKENS and the documents runs build from it *)

\* A reference to the object heap[i]; a name or a container slot holds
\* either a reference or an immutable value (str, number, None).
Ref(i) == [k |-> "ref", s |-> "", n |-> i, d |-> EmptyMap, l |-> <<>>]
IsRef(c) == c.k = "ref"
IsDictCell(h, c) == IsRef(c) /\ IsDict(h[c.n])

\* The value json.dump writes for what cell c refers to.
RECURSIVE Resolve(_, _)
Resolve(h, c) ==
    IF ~IsRef(c) THEN c
    ELSE LET o == h[c.n]
         IN IF IsDict(o)
            THEN [o EXCEPT !.d = [key \in DOMAIN o.d |-> Resolve(h, o.d[key])]]
            ELSE [o EXCEPT !.l = [i \in 1..Len(o.l) |-> Resolve(h, o.l[i])]]

\* A step into a container: a key of a dict (i = 0) or an index of a list.
KeyStep(key) == [key |-> key, i |-> 0]
ItemStep(i) == [key |-> "", i |-> i]

\* The paths of steps that lead to the dicts and lists of a value.
RECURSIVE ContainerPaths(_)
ContainerPaths(v) ==
    IF IsDict(v)
    THEN {<<>>} \cup UNION {{<<KeyStep(key)>> \o p : p \in ContainerPaths(v.d[key])} :
                              key \in DOMAIN v.d}
    ELSE IF IsList(v)
    THEN {<<>>} \cup UNION {{<<ItemStep(i)>> \o p : p \in ContainerPaths(v.l[i])} :
                              i \in 1..Len(v.l)}
    ELSE {}

\* The value a path of steps leads to.
RECURSIVE AtSteps(_, _)
AtSteps(v, p) ==
    IF p = <<>> THEN v
    ELSE AtSteps(IF p[1].i = 0 THEN v.d[p[1].key] ELSE v.l[p[1].i], Tail(p))

\* Building a value out of fresh objects (a dict or list literal, json.loads):
\* the heap with one new object for each dict and list of the value, and the
\* cell that refers to the value.
AllocCell(h, paths, child, p) ==
    IF IsDict(child) \/ IsList(child)
    THEN Ref(Len(h) + (CHOOSE j \in 1..Len(paths) : paths[j] = p))
    ELSE child
AllocObject(h, paths, o, p) ==
    IF IsDict(o)
    THEN [o EXCEPT !.d = [key \in DOMAIN o.d |->
                            AllocCell(h, paths, o.d[key], p \o <<KeyStep(key)>>)]]
    ELSE [o EXCEPT !.l = [i \in 1..Len(o.l) |->
                            AllocCell(h, paths, o.l[i], p \o <<ItemStep(i)>>)]]
AllocAll(h, v, paths) ==
    [h |-> h \o [j \in 1..Len(paths) |-> AllocObject(h, paths, AtSteps(v, paths[j]), paths[j])],
     c |-> AllocCell(h, paths, v, <<>>)]
Alloc(h, v) == AllocAll(h, v, SetToSeq(ContainerPaths(v)))

\* The module-level DEFAULT_TOKENS object, built when the module is loaded.
InitialHeap == Alloc(<<>>, DEFAULT_TOKENS).h
DEFAULT_TOKENS_REF == Alloc(<<>>, DEFAULT_TOKENS).c

\* Mutant: the caller gets the object itself.
dict_copy_Alias(h, c) == [h |-> h, c |-> c]

\* c.copy(): a new dict whose slots hold the same cells (a shallow copy).
dict_copy(h, c) == [h |-> Append(h, h[c.n]), c |-> Ref(Len(h) + 1)]

\* c[key] = cell, in place.
SetItem(h, c, key, cell) == [h EXCEPT ![c.n] = Put(@, <<key>>, cell)]

\* deep_merge(base, override) on objects: the result is a copy of base; a
\* key whose two values are dicts gets the merge of the two, any other key
\* gets override's cell.
RECURSIVE DeepMergeObjects(_, _, _)
RECURSIVE DeepMergeInto(_, _)
RECURSIVE DeepMergeKeys(_, _, _, _)
RECURSIVE DeepMergeStore(_, _, _, _, _)
DeepMergeObjects(h, base, override) == DeepMergeInto(dict_copy(h, base), override)
DeepMergeInto(r, override) ==
    DeepMergeKeys(r.h, r.c, override, SetToSeq(DOMAIN r.h[override.n].d))
DeepMergeKeys(h, result, override, keys) ==
    IF keys = <<>> THEN [h |-> h, c |-> result]
    ELSE LET key == Head(keys)
             value == h[override.n].d[key]
             mine == h[result.n].d
         IN IF key \in DOMAIN mine /\ IsDictCell(h, mine[key]) /\ IsDictCell(h, value)
            THEN DeepMergeStore(DeepMergeObjects(h, mine[key], value), result, key,
                                override, keys)
            ELSE DeepMergeKeys(SetItem(h, result, key, value), result, override, Tail(keys))
DeepMergeStore(m, result, key, override, keys) ==
    DeepMergeKeys(SetItem(m.h, result, key, m.c), result, override, Tail(keys))

\* merge_with_defaults(tokens) on objects; override.items() raises for an
\* argument that is no dict.
MergeIntoCopy(b, toks) ==
    IF IsDictCell(b.h, toks) THEN DeepMergeObjects(b.h, b.c, toks)
    ELSE [h |-> b.h, c |-> Raise("AttributeError")]
MergeWithDefaultsObjects(h, toks) == MergeIntoCopy(dict_copy(h, DEFAULT_TOKENS_REF), toks)

\* extract_tokens' except branch: a copy of the defaults with its notes set.
StoreNotes(note, c) == [h |-> SetItem(note.h, c, "notes", note.c), c |-> c]
NoteFailure(b, e) == StoreNotes(Alloc(b.h, List(<<Str("Extraction failed: " \o e)>>)), b.c)
ExtractionFailedObjects(h, e) == NoteFailure(dict_copy(h, DEFAULT_TOKENS_REF), e)

\* The parsed answer after validation: with the validation errors added to
\* its notes, or the exception raised on the way.
NotedWith(toks, errors) ==
    IF IsRaise(errors) THEN errors
    ELSE IF errors.l # <<>> THEN AddErrorNotes(toks, errors)
    ELSE toks
Noted(toks) == NotedWith(toks, validate_tokens(toks))

\* extract_tokens on objects.  Validation and the notes of the answer read
\* and write only the answer parsed by json.loads.
OrFailed(out) == IF IsRaise(out.c) THEN ExtractionFailedObjects(out.h, out.c.s) ELSE out
MergeParsed(parsed) == OrFailed(MergeWithDefaultsObjects(parsed.h, parsed.c))
ParseObjects(h, noted) ==
    IF IsRaise(noted) THEN ExtractionFailedObjects(h, noted.s)
    ELSE MergeParsed(Alloc(h, noted))
ExtractTokensObjects(h, key, images, resp) ==
    IF ~key \/ images = 0 THEN dict_copy(h, DEFAULT_TOKENS_REF)
    ELSE IF resp.st = "raised" THEN ExtractionFailedObjects(h, resp.body.s)
    ELSE IF resp.st = "empty" THEN dict_copy(h, DEFAULT_TOKENS_REF)
    ELSE ParseObjects(h, Noted(resp.body))

\* merge_section_tokens(section_tokens) as one call: the loop, then
\* clean_nones; the accumulator is a fresh literal of the call.
RECURSIVE MergeLoop(_, _, _)
MergeLoop(a, results, i) ==
    IF i > Len(results) \/ a.err # "" THEN a
    ELSE MergeLoop(MergeSection(a, results[i]), results, i + 1)
MergeResult(a) == IF a.err # "" THEN Raise(a.err) ELSE CleanMerged(a.m)
merge_section_tokens(results) ==
    MergeResult(MergeLoop(Acc(InitialMerged(results), {}, ""), results, 1))

\* main's section branch as a function of the results: the saved document,
\* or the exception that ends the run.
SectionDocument(m) == IF IsRaise(m) THEN m ELSE FinalizeSections(m)

\* main's section branch on objects: merge, defaults-merge, bookkeeping.
StampSection(out, got) ==
    [h |-> SetItem(SetItem(SetItem(out.h, out.c, "_mode", Str("section")),
                           out.c, "_sections", out.h[got.n].d["_sections"]),
                   out.c, "_sectionCount", out.h[got.n].d["_sectionCount"]),
     c |-> out.c]
Bookkeep(merged_tokens) ==
    StampSection(MergeWithDefaultsObjects(merged_tokens.h, merged_tokens.c), merged_tokens.c)
SectionModeWith(h, m) == IF IsRaise(m) THEN [h |-> h, c |-> m] ELSE Bookkeep(Alloc(h, m))
SectionModeObjects(h, results) == SectionModeWith(h, merge_section_tokens(results))

\* main's viewport branch on objects.
StampViewport(out) == [h |-> SetItem(out.h, out.c, "_mode", Str("viewport")), c |-> out.c]
ViewportModeObjects(h, key, images, resp) ==
    StampViewport(ExtractTokensObjects(h, key, images, resp))

-----------------------------------------------------------------------------
(* Bounded inputs of repeated runs in one process *)

MaxRuns == 2

\* What the viewport path may meet: no key, no screenshot, an empty answer,
\* a failed call, and answers that are clean, rejected, ill-typed or partial.
RunAnswers ==
    {[key |-> FALSE, images |-> 1, resp |-> EmptyResponse],
     [key |-> TRUE, images |-> 0, resp |-> EmptyResponse],
     [key |-> TRUE, images |-> 1, resp |-> EmptyResponse],
     [key |-> TRUE, images |-> 1, resp |-> RaisedResponse("ClientError")]}
    \cup {[key |-> TRUE, images |-> 1, resp |-> JsonResponse(b)] :
            b \in {D1("colors", D1("primary", COLOR_A)),
                   D2("colors", D1("primary", Str("red")), "notes", Str("own note")),
                   D2("colors", D2("primary", Str("red"), "border", None),
                      "spacing", D1("4", Str("1rem"))),
                   D1("typography", None),
                   List(<<>>)}}

\* What the section path may have collected.
RunResults ==
    {<< Put(D1("colors", D2("accent", COLOR_A, "background", None)),
            <<"_section">>, Str("header")),
        Put(D1("colors", D2("background", COLOR_WHITE, "accent", COLOR_B)),
            <<"_section">>, Str("hero")),
        D2("_section", Str("footer"), "error", Str("timeout")) >>,
     << D2("_section", Str("footer"), "error", Str("timeout")) >>,
     << D2("_section", Str("header"), "colors", None) >>}

\* A process that has loaded the module and run main's body no time yet.
InitProcess ==
    /\ pc = "main"
    /\ heap = InitialHeap
    /\ runs = 0
    /\ IdleMerge /\ IdleViewport /\ IdleDir /\ css_output = Idle /\ IdleEnv
    /\ IdleSelector /\ IdleHex

\* The end of a run: its document is handed to json.dump; the objects it
\* built stay where they are.
Returns(out) == heap' = out.h /\ tokens' = out.c

\* One run of main in viewport mode.
RunViewport ==
    /\ runs < MaxRuns
    /\ \E a \in RunAnswers :
         /\ api_key' = a.key /\ available_images' = a.images /\ response' = a.resp
         /\ Returns(ViewportModeObjects(heap, a.key, a.images, a.resp))
    /\ runs' = runs + 1
    /\ pc' = "viewport_saved"
    /\ UNCHANGED <<section_tokens, idx, merged, seen_sizes, dirVars, css_output, envVars, selectorVars,
                   hexVars>>

\* One run of main in section mode.
RunSections ==
    /\ runs < MaxRuns
    /\ \E results \in RunResults :
         /\ section_tokens' = results
         /\ Returns(SectionModeObjects(heap, results))
    /\ runs' = runs + 1
    /\ pc' = "section_saved"
    /\ UNCHANGED <<idx, merged, seen_sizes, viewportVars, dirVars, css_output, envVars, selectorVars,
                   hexVars>>

NextProcess == RunViewport \/ RunSections

SpecProcess == InitProcess /\ [][NextProcess]_vars

-----------------------------------------------------------------------------
(* main in section mode: listing the section images and requesting them *)

\* The characters of section file names, in code point order.
CODE_POINT_ORDER == "-.0123456789abcdefghijklmnopqrstuvwxyz"
CodePoint(c) == CHOOSE i \in 1..Len(CODE_POINT_ORDER) : CharAt(CODE_POINT_ORDER, i) = c

\* a < b for str (and for two paths of one directory): at the first
\* position where they differ the smaller code point decides; a proper
\* prefix is smaller.
RECURSIVE LessFrom(_, _, _)
LessFrom(a, b, i) ==
    IF i > Len(b) THEN FALSE
    ELSE IF i > Len(a) THEN TRUE
    ELSE IF CharAt(a, i) = CharAt(b, i) THEN LessFrom(a, b, i + 1)
    ELSE CodePoint(CharAt(a, i)) < CodePoint(CharAt(b, i))
StrLess(a, b) == LessFrom(a, b, 1)

\* sorted(names) for distinct names.
RECURSIVE sorted(_)
sorted(names) ==
    IF names = {} THEN <<>>
    ELSE LET least == CHOOSE a \in names : \A b \in names \ {a} : StrLess(a, b)
         IN <<least>> \o sorted(names \ {least})

MAX_SECTIONS == 15

\* section_files[:MAX_SECTIONS] when there are more.
LimitSections(files) ==
    IF Len(files) > MAX_SECTIONS THEN SubSeq(files, 1, MAX_SECTIONS) ELSE files

\* The image of the section with page index i: section-<index>-<name>.png.
SectionFile(i) ==
    "section-" \o ToString(i) \o "-" \o (IF i = 0 THEN "header" ELSE "content") \o ".png"

\* Path(section_path).stem
Stem(file) == SubSeq(file, 1, Len(file) - 4)

\* The answer for the image of section i: a background that tells the
\* sections apart.
SectionColor(i) == Str("#0000" \o (IF i < 10 THEN "0" ELSE "") \o ToString(i))
SectionAnswer(file) ==
    LET i == CHOOSE j \in 0..99 : SectionFile(j) = file
    IN D1("colors", D1("background", SectionColor(i)))

\* What the call for the image of section i comes back with: no text for
\* section 3, an exception for section 5, JSON that is no object for
\* section 12, and the section's answer for every other section.
SectionResponse(file) ==
    LET i == CHOOSE j \in 0..99 : SectionFile(j) = file
    IN CASE i = 3 -> EmptyResponse
         [] i = 5 -> RaisedResponse("503 UNAVAILABLE")
         [] i = 12 -> JsonResponse(List(<<>>))
         [] OTHER -> JsonResponse(SectionAnswer(file))

\* type(v).__name__
TypeName(v) == IF v.k = "null" THEN "NoneType" ELSE v.k

\* The result for a section that gave no tokens.
SectionError(file, error) == D2("_section", Str(Stem(file)), "error", Str(error))

\* extract_section_tokens for one image, given the parsed answer.
extract_section_tokens(file, answer) == Put(answer, <<"_section">>, Str(Stem(file)))

\* extract_section_tokens for one image, given what the call comes back
\* with: every exception of the try block becomes a failed result.
ExtractSection(file, resp) ==
    IF resp.st = "raised" THEN SectionError(file, resp.body.s)
    ELSE IF resp.st = "empty" THEN SectionError(file, "Empty response")
    ELSE IF IsList(resp.body)
    THEN SectionError(file, "list indices must be integers or slices, not str")
    ELSE IF ~IsDict(resp.body)
    THEN SectionError(file, "'" \o TypeName(resp.body) \o "' object does not support item assignment")
    ELSE extract_section_tokens(file, resp.body)

-----------------------------------------------------------------------------
(* Bounded inputs of main in section mode *)

\* Largest page index of a section image.
MaxIndex == 16

\* The sections directory holds the images of a run of consecutive sections.
InitListing ==
    /\ pc = "list"
    /\ \E lo \in 0..MaxIndex, hi \in -1..MaxIndex :
          /\ (hi = -1 => lo = 0)
          /\ sections_dir = {SectionFile(i) : i \in lo..hi}
    /\ section_files = <<>>
    /\ trace = <<>>
    /\ IdleMerge /\ IdleViewport /\ IdleHeap /\ css_output = Idle /\ IdleEnv
    /\ IdleSelector /\ IdleHex

\* main: list the images, sorted; leave when there is none; cap the list.
ListSections ==
    /\ pc = "list"
    /\ section_files' = LimitSections(sorted(sections_dir))
    /\ pc' = IF sections_dir = {} THEN "exit" ELSE "request"
    /\ UNCHANGED <<sections_dir, trace, mergeVars, viewportVars, heapVars, css_output, envVars, selectorVars, hexVars>>

\* Mutant: the delay follows every call, the last one too.
AfterRequest_AlwaysSleep(i, n) == "sleep"

\* Where the loop goes after the call for the i-th of n images (0-based):
\* to time.sleep unless the image is the last one.
AfterRequest(i, n) == IF i < n - 1 THEN "sleep" ELSE "request"

\* One iteration of main's loop up to its delay: request the next image and
\* append the result.
RequestSection ==
    /\ pc = "request"
    /\ idx < Len(section_files)
    /\ section_tokens' =
          Append(section_tokens,
                 ExtractSection(section_files[idx + 1], SectionResponse(section_files[idx + 1])))
    /\ trace' = Append(trace, section_files[idx + 1])
    /\ idx' = idx + 1
    /\ pc' = AfterRequest(idx, Len(section_files))
    /\ UNCHANGED <<merged, seen_sizes, tokens, sections_dir, section_files, viewportVars,
                   heapVars, css_output, envVars, selectorVars, hexVars>>

\* The rate limiting delay that ends an iteration.
Sleep ==
    /\ pc = "sleep"
    /\ trace' = Append(trace, "time.sleep")
    /\ pc' = "request"
    /\ UNCHANGED <<mergeVars, sections_dir, section_files, viewportVars, heapVars, css_output, envVars,
                   selectorVars, hexVars>>

\* After the loop: merge the results, merge with the defaults, save.
MergeSections ==
    /\ pc = "request"
    /\ idx = Len(section_files)
    /\ merged' = merge_section_tokens(section_tokens)
    /\ tokens' = SectionDocument(merged')
    /\ pc' = IF IsRaise(merged') THEN "raised" ELSE "saved"
    /\ UNCHANGED <<section_tokens, idx, seen_sizes, dirVars, viewportVars, heapVars, css_output, envVars,
                   selectorVars, hexVars>>

NextListing == ListSections \/ RequestSection \/ Sleep \/ MergeSections

SpecListing == InitListing /\ [][NextListing]_vars

-----------------------------------------------------------------------------
(* Claims about the Context Priority Selector *)

Present(v) == Truthy(v)

\* The tier the fixed precedence names for the inputs of the run.
ExpectedTier ==
    IF Present(hierarchy) /\ Present(dimensions) THEN "STRUCTURE_PROMPT_WITH_HIERARCHY"
    ELSE IF Present(dimensions) THEN "STRUCTURE_PROMPT_WITH_DIMENSIONS"
    ELSE IF Present(html_content) /\ Present(css_content) THEN "STRUCTURE_PROMPT_WITH_CONTEXT"
    ELSE "STRUCTURE_PROMPT"

\* C1: every returned payload is rendered from exactly the tier that the
\* precedence hierarchy+dimensions > dimensions > HTML+CSS > screenshot-only
\* names for the inputs that are present (present meaning non-empty), and only
\* the markup tier carries HTML/CSS text.
C1_TierByPrecedence ==
    (pc = "selected" /\ prompt.st = "ok") =>
        /\ prompt.template = ExpectedTier
        /\ ("html_snippet" \in DOMAIN prompt.args
              <=> (Present(html_content) /\ Present(css_content) /\ ~Present(dimensions)))
        /\ ("css_snippet" \in DOMAIN prompt.args <=> "html_snippet" \in DOMAIN prompt.args)

\* C1 witness: all four inputs present, the hierarchy tier is rendered.
C1_Witness ==
    /\ pc = "selected" /\ prompt.st = "ok"
    /\ Present(hierarchy) /\ Present(dimensions)
    /\ Present(html_content) /\ Present(css_content)
    /\ prompt.template = "STRUCTURE_PROMPT_WITH_HIERARCHY"

\* C2: build_structure_prompt returns a payload, and raises no exception, for
\* every combination of inputs that are absent or structured documents.
C2_NoErrorOutcome ==
    pc = "selected" => prompt.st = "ok"

\* Is the leaf field at `path` carried by document v?
RECURSIVE HasPath(_, _)
HasPath(v, path) ==
    /\ IsDict(v)
    /\ path[1] \in DOMAIN v.d
    /\ (Len(path) = 1 \/ HasPath(v.d[path[1]], Tail(path)))

\* For each replacement field of the two measurement tiers: the fields of the
\* summary it is rendered from, most specific first, and its literal default.
FieldSources(template, field) ==
    CASE field = "container_max_width" -> <<<<"EXACT_DIMENSIONS", "container_max_width">>>>
      [] field = "section_padding" -> <<<<"EXACT_DIMENSIONS", "section_padding">>>>
      [] field = "gap" -> <<<<"EXACT_DIMENSIONS", "gap">>>>
      [] field = "card_width" -> <<<<"EXACT_DIMENSIONS", "card_dimensions", "width">>>>
      [] field = "card_height" -> <<<<"EXACT_DIMENSIONS", "card_dimensions", "height">>>>
      [] field = "card_padding" -> <<<<"EXACT_DIMENSIONS", "card_dimensions", "padding">>>>
      [] field = "h1" -> <<<<"EXACT_TYPOGRAPHY", "h1">>>>
      [] field = "h2" -> <<<<"EXACT_TYPOGRAPHY", "h2">>>>
      [] field = "h3" -> <<<<"EXACT_TYPOGRAPHY", "h3">>>>
      [] field = "body" -> <<<<"EXACT_TYPOGRAPHY", "body">>>>
      [] field = "hero_h1" -> <<<<"TYPOGRAPHY_BY_SECTION", "hero", "h1">>, <<"EXACT_TYPOGRAPHY", "h1">>>>
      [] field = "hero_h2" -> <<<<"TYPOGRAPHY_BY_SECTION", "hero", "h2">>, <<"EXACT_TYPOGRAPHY", "h2">>>>
      [] field = "hero_body" -> <<<<"TYPOGRAPHY_BY_SECTION", "hero", "p">>, <<"EXACT_TYPOGRAPHY", "body">>>>
      [] field = "content_h2" -> <<<<"TYPOGRAPHY_BY_SECTION", "content", "h2">>, <<"EXACT_TYPOGRAPHY", "h2">>>>
      [] field = "content_h3" -> <<<<"TYPOGRAPHY_BY_SECTION", "content", "h3">>, <<"EXACT_TYPOGRAPHY", "h3">>>>
      [] field = "content_body" -> <<<<"TYPOGRAPHY_BY_SECTION", "content", "p">>, <<"EXACT_TYPOGRAPHY", "body">>>>
      [] field = "footer_body" -> <<<<"TYPOGRAPHY_BY_SECTION", "footer", "p">>>>
      [] field = "desktop_breakpoint" -> <<<<"RESPONSIVE", "desktop_breakpoint">>>>
      [] field = "tablet_breakpoint" -> <<<<"RESPONSIVE", "tablet_breakpoint">>>>
      [] field = "mobile_breakpoint" -> <<<<"RESPONSIVE", "mobile_breakpoint">>>>
      [] field = "h1_tablet" -> <<<<"RESPONSIVE", "typography_scaling", "h1", "tablet">>>>
      [] field = "h1_mobile" -> <<<<"RESPONSIVE", "typography_scaling", "h1", "mobile">>>>
      [] field = "h2_tablet" -> <<<<"RESPONSIVE", "typography_scaling", "h2", "tablet">>>>
      [] field = "h2_mobile" -> <<<<"RESPONSIVE", "typography_scaling", "h2", "mobile">>>>
      [] OTHER -> <<>>

FieldDefault(template, field) ==
    CASE field = "container_max_width" -> "1200px"
      [] field = "section_padding" -> "64px 0"
      [] field = "gap" -> "24px"
      [] field = "card_width" -> "380px"
      [] field = "card_height" -> "auto"
      [] field = "card_padding" -> "24px"
      [] field = "h1" -> "48px"
      [] field = "h2" -> "36px"
      [] field = "h3" -> "28px"
      [] field = "body" -> "16px"
      [] field = "hero_h1" -> "64px"
      [] field = "hero_h2" -> "48px"
      [] field = "hero_body" -> "18px"
      [] field = "content_h2" -> "32px"
      [] field = "content_h3" -> "24px"
      [] field = "content_body" -> "16px"
      [] field = "footer_body" -> "14px"
      [] field = "desktop_breakpoint" -> "1440px"
      [] field = "tablet_breakpoint" -> "768px"
      [] field = "mobile_breakpoint" -> "375px"
      [] field = "h1_tablet" -> "36px"
      [] field = "h1_mobile" -> "28px"
      [] field = "h2_tablet" -> "28px"
      [] field = "h2_mobile" -> "24px"
      [] OTHER -> ""

\* The replacement fields of a tier that are rendered from the summary D.
MeasuredFields(template) == {f \in Placeholders(template) : FieldSources(template, f) # <<>>}

FieldExpected(template, field) ==
    LET src == FieldSources(template, field)
        carried == {i \in 1..Len(src) : HasPath(dimensions, src[i])}
    IN IF carried = {} THEN FieldDefault(template, field)
       ELSE PathText(src[CHOOSE i \in carried : \A j \in carried : i <= j])

MeasurementTiers == {"STRUCTURE_PROMPT_WITH_HIERARCHY", "STRUCTURE_PROMPT_WITH_DIMENSIONS"}

\* C3: in the hierarchy tier and the dimensions tier, whatever subset of
\* fields the summary carries, every replacement field of the template is
\* rendered: with the summary's value where the summary carries the field,
\* with the fixed literal default where it does not.
C3_FieldsResolved ==
    (pc = "selected" /\ Present(dimensions)) =>
        /\ prompt.st = "ok"
        /\ prompt.template \in MeasurementTiers
        /\ DOMAIN prompt.args = Placeholders(prompt.template)
        /\ \A f \in MeasuredFields(prompt.template) :
              prompt.args[f] = FieldExpected(prompt.template, f)

\* C3 witness: a summary that carries the gap but neither the container width
\* nor the tablet breakpoint is rendered with the two literals and the gap.
C3_Witness ==
    /\ pc = "selected" /\ prompt.st = "ok"
    /\ prompt.template = "STRUCTURE_PROMPT_WITH_HIERARCHY"
    /\ HasPath(dimensions, <<"EXACT_DIMENSIONS", "gap">>)
    /\ ~HasPath(dimensions, <<"EXACT_DIMENSIONS", "container_max_width">>)
    /\ ~HasPath(dimensions, <<"RESPONSIVE", "tablet_breakpoint">>)
    /\ prompt.args["container_max_width"] = "1200px"
    /\ prompt.args["tablet_breakpoint"] = "768px"
    /\ prompt.args["gap"] = "EXACT_DIMENSIONS/gap"

\* C4: the payload built with the content-count summary is the payload built
\* without it followed by the separator, the summary verbatim and the
\* instruction; without a summary nothing is appended.
C4_CountsAppendedVerbatim ==
    (pc = "selected" /\ prompt.st = "ok") =>
        /\ prompt.tail = IF Present(content_summary)
                         THEN <<SEPARATOR, content_summary.s, COUNTS_INSTRUCTION>>
                         ELSE <<>>
        /\ [prompt EXCEPT !.tail = <<>>]
             = build_structure_prompt(html_content, css_content, dimensions, None, hierarchy)

C4_Witness ==
    /\ pc = "selected" /\ prompt.st = "ok"
    /\ Present(content_summary)
    /\ Len(prompt.tail) = 3
    /\ prompt.template = "STRUCTURE_PROMPT_WITH_DIMENSIONS"

\* r is what the prefix-only policy makes of text s under a budget.
IsBudgetPrefix(r, s, budget) ==
    /\ Len(r) = Min(Len(s), budget)
    /\ SubSeq(s, 1, Len(r)) = r
    /\ (Len(s) <= budget => r = s)
    /\ Truncate(r, budget) = r

\* C5: each raw text is rendered as its own prefix of at most the budget
\* (100000 in the markup tier, 15000 in build_extraction_prompt, 5000 in
\* build_section_prompt): unchanged at or under the budget, cut to exactly the
\* budget above it, never an error, and truncating again changes nothing.
C5_PrefixTruncation ==
    /\ pc # "select" => prompt.st = "ok"
    /\ (pc = "selected" /\ Present(html_content) /\ Present(css_content)) =>
          /\ prompt.template = "STRUCTURE_PROMPT_WITH_CONTEXT"
          /\ IsBudgetPrefix(prompt.args["html_snippet"], html_content.s, 100000)
          /\ IsBudgetPrefix(prompt.args["css_snippet"], css_content.s, 100000)
    /\ (pc = "extraction_built" /\ Present(css_content)) =>
          IsBudgetPrefix(prompt.args["css_content"], css_content.s, 15000)
    /\ (pc = "section_built" /\ Present(css_content)) =>
          IsBudgetPrefix(prompt.args["css_content"], css_content.s, 5000)

\* C5 witness: an HTML text one unit over the budget was cut to the budget
\* while a CSS text exactly at the budget was rendered whole.
C5_Witness ==
    /\ pc = "selected" /\ prompt.st = "ok"
    /\ Len(html_content.s) = 100001
    /\ Len(css_content.s) = 100000
    /\ Len(prompt.args["html_snippet"]) = 100000
    /\ prompt.args["css_snippet"] = css_content.s

-----------------------------------------------------------------------------
(* Claims about the validator *)

\* C6: validate_hex_color(s) is true if and only if s is exactly seven
\* characters, a leading '#' followed by six hexadecimal digits of either case.
IsSixDigitHex(s) ==
    /\ Len(s) = 7
    /\ CharAt(s, 1) = "#"
    /\ \A i \in 2..7 : CharAt(s, i) \in HexDigits

C6_HexIffSevenChars ==
    pc = "hex_done" => (IsTrue(hex_ok) <=> IsSixDigitHex(color.s))

-----------------------------------------------------------------------------
(* Claims about the Token Merge Engine *)

\* The value a document holds in a color slot (None when the slot is absent).
SlotValue(doc, slot) == IF HasPath(doc, slot) THEN At(doc, slot) ELSE None

\* "colors.primary", "colors.text.muted"
RECURSIVE SlotText(_)
SlotText(slot) ==
    IF Len(slot) = 1 THEN slot[1] ELSE slot[1] \o "." \o SlotText(Tail(slot))

\* A string of the form '#' plus six hex digits.
StrictHex(v) == IsStr(v) /\ IsSixDigitHex(v.s)

\* A string the hex check answers False for.
Rejected(v) == IsStr(v) /\ validate_hex_color(v) = Bool(FALSE)

\* The i-th result is not a failed one.
Succeeded(i) == "error" \notin DOMAIN section_tokens[i].d

\* The value the i-th result supplies for a source color field (None when it
\* supplies none).
SuppliedColor(i, src) ==
    IF Succeeded(i) /\ HasPath(section_tokens[i], <<"colors", src>>)
    THEN At(section_tokens[i], <<"colors", src>>)
    ELSE None

MappingSet == {COLOR_MAPPINGS[i] : i \in 1..Len(COLOR_MAPPINGS)}

\* The document of the section path at the current position.
SectionDoc == IF pc = "saved" THEN tokens ELSE merged

OnSectionPath == pc \in {"merge", "merged", "saved"}

\* extract_tokens ran its try block on a parsed answer.
Validated ==
    pc = "extracted" /\ api_key /\ available_images > 0 /\ response.st = "json"

NoteTexts(doc) == IF HasKey(doc, "notes") /\ IsList(doc.d["notes"]) THEN doc.d["notes"].l ELSE <<>>

\* C7: after every merge step of merge_section_tokens, and in the final
\* document after the defaults-merge, every color slot that holds a value
\* holds a string of the form '#' plus six hex digits.
C7_SlotsHoldSixDigitHex ==
    OnSectionPath =>
       \A slot \in SlotSet :
          SlotValue(SectionDoc, slot) # None => StrictHex(SlotValue(SectionDoc, slot))

\* Some note of the document contains the text of the value.
NoteRecords(doc, v) ==
    \E j \in 1..Len(NoteTexts(doc)) :
        IsStr(NoteTexts(doc)[j]) /\ Contains(NoteTexts(doc)[j].s, v.s)

RECURSIVE InputNotes(_, _)
InputNotes(results, n) ==
    IF n = 0 THEN <<>>
    ELSE LET r == results[n]
             own == IF "error" \in DOMAIN r.d
                    THEN <<Str("Section " \o r.d["_section"].s \o " failed: " \o r.d["error"].s)>>
                    ELSE NoteTexts(r)
         IN InputNotes(results, n - 1) \o own

ExceptionNames == {"TypeError", "AttributeError", "KeyError"}

\* The extraction was abandoned: defaults and a single failure note.
Abandoned ==
    \E e \in ExceptionNames :
        tokens = Put(ExtractionFailed(e), <<"_mode">>, Str("viewport"))

Count(q, x) == Cardinality({j \in 1..Len(q) : q[j] = x})

\* Every value of `body` is found at the same place in `doc`.
RECURSIVE Kept(_, _)
Kept(body, doc) ==
    IF IsDict(body) /\ IsDict(doc)
    THEN \A key \in DOMAIN body.d : key \in DOMAIN doc.d /\ Kept(body.d[key], doc.d[key])
    ELSE body = doc

\* C9: on the whole-document path each of the nine color slots whose value
\* fails the hex check produces exactly one note naming the slot and the
\* value, appended after the result's own notes; the invalid value is left
\* in place; slots with valid values produce no note; the extracted values
\* of all other fields are kept.
C9_ViewportNotesEachFailedSlot ==
    (Validated /\ IsDict(response.body)) =>
        LET body == response.body
            own == NoteTexts(body)
            notes == NoteTexts(tokens)
        IN /\ \A slot \in SlotSet :
                 HasPath(body, slot) =>
                    LET v == At(body, slot)
                        fails == ~(IsStr(v) /\ IsTrue(validate_hex_color(v)))
                        note == Str("Invalid hex color: " \o SlotText(slot) \o " = " \o PyStr(v))
                    IN /\ Count(notes, note) = IF fails THEN 1 ELSE 0
                       /\ SlotValue(tokens, slot) = v
           /\ Len(notes) >= Len(own) /\ SubSeq(notes, 1, Len(own)) = own
           /\ \A key \in DOMAIN body.d \ {"notes"} :
                 key \in DOMAIN tokens.d /\ Kept(body.d[key], tokens.d[key])

\* The results that supply a present, non-null, valid hex value for a source
\* color field.
ValidSuppliers(src) ==
    {i \in 1..Len(section_tokens) : StrictHex(SuppliedColor(i, src))}

Earliest(S) == CHOOSE i \in S : \A j \in S : i <= j

\* C10: for each mapping the destination slot after merge_section_tokens
\* holds the source value of the earliest non-failed result whose value is
\* present, non-null and valid hex; an earlier null or invalid value does
\* not block a later valid one.
C10_FirstValidWins ==
    /\ pc = "merged" =>
          \A m \in MappingSet :
             SlotValue(merged, m[2]) =
                IF ValidSuppliers(m[1]) = {} THEN None
                ELSE SuppliedColor(Earliest(ValidSuppliers(m[1])), m[1])
    /\ pc = "raised" => \A m \in MappingSet : ValidSuppliers(m[1]) = {}

\* What a section result holds besides its identifier.
BodyOf(r) == [key \in DOMAIN r.d \ {"_section"} |-> r.d[key]]

\* The result the loop takes next was already processed earlier in the
\* sequence (under another identifier).
NextIsRepeat ==
    /\ pc = "merge" /\ idx < Len(section_tokens)
    /\ \E j \in 1..idx : BodyOf(section_tokens[j]) = BodyOf(section_tokens[idx + 1])

RECURSIVE SucceededNames(_)
SucceededNames(n) ==
    IF n = 0 THEN <<>>
    ELSE IF Succeeded(n)
         THEN Append(SucceededNames(n - 1), section_tokens[n].d["_section"])
         ELSE SucceededNames(n - 1)

\* C12: _sectionCount equals the length of the input sequence, failed
\* entries included; _sections is the subsequence of the identifiers of the
\* non-failed entries, in input order and without deduplication; both are
\* unchanged in the document saved after the defaults-merge.
C12_Bookkeeping ==
    OnSectionPath =>
       /\ SectionDoc.d["_sectionCount"] = Num(Len(section_tokens))
       /\ SectionDoc.d["_sections"] = List(SucceededNames(idx))
       /\ pc = "saved" => idx = Len(section_tokens)

\* C12 witness: a saved document of three entries, one failed between two
\* non-failed entries that carry the same identifier.
C12_Witness ==
    /\ pc = "saved"
    /\ Len(section_tokens) = 3
    /\ Succeeded(1) /\ ~Succeeded(2) /\ Succeeded(3)
    /\ tokens.d["_sections"] = List(<<Str("header"), Str("header")>>)
    /\ tokens.d["_sectionCount"] = Num(3)

\* A note of the form merge_section_tokens writes for a failed result.
IsFailureNote(note) ==
    /\ IsStr(note)
    /\ Len(note.s) >= 8 /\ SubSeq(note.s, 1, 8) = "Section "
    /\ Contains(note.s, " failed: ")

FailedAmong(n) == {i \in 1..n : ~Succeeded(i)}

\* The loop takes a failed result next.
NextIsFailed ==
    /\ pc = "merge" /\ idx < Len(section_tokens)
    /\ ~Succeeded(idx + 1)

\* The step appended one note, which contains the identifier and the error
\* text of the result, and changed nothing else.
OnlyFailureNoted ==
    LET r == section_tokens[idx + 1]
        old == merged.d["notes"].l
        new == merged'.d["notes"].l
    IN /\ pc' = "merge" /\ idx' = idx + 1
       /\ new = Append(old, new[Len(new)])
       /\ IsFailureNote(new[Len(new)])
       /\ Contains(new[Len(new)].s, r.d["_section"].s)
       /\ Contains(new[Len(new)].s, r.d["error"].s)
       /\ DOMAIN merged'.d = DOMAIN merged.d
       /\ \A key \in DOMAIN merged.d \ {"notes"} : merged'.d[key] = merged.d[key]
       /\ seen_sizes' = seen_sizes
       /\ UNCHANGED <<tokens, section_tokens>>

\* C13: a result carrying an error marker changes nothing but the notes:
\* processing it appends exactly one note containing its identifier and its
\* error text and leaves every color, typography, spacing, borderRadius and
\* shadow slot, the _sections list and the seen sizes unchanged, even when
\* it also carries value fields or notes; the number of failure notes
\* equals the number of failed entries.
C13_FailedOnlyNoted ==
    /\ [](OnSectionPath =>
            Cardinality({j \in 1..Len(NoteTexts(SectionDoc)) :
                            IsFailureNote(NoteTexts(SectionDoc)[j])})
               = Cardinality(FailedAmong(idx)))
    /\ [][NextIsFailed => OnlyFailureNoted]_vars

\* C13 witness: after a non-failed result has filled slots and the seen
\* sizes, a failed result that carries colors, typography and notes of its
\* own has been processed.
C13_Witness ==
    /\ pc = "merge" /\ idx = 2
    /\ Succeeded(1) /\ ~Succeeded(2)
    /\ HasPath(section_tokens[2], <<"colors", "background">>)
    /\ HasPath(section_tokens[2], <<"notes">>)
    /\ seen_sizes = {Str("40px")}
    /\ SlotValue(merged, <<"colors", "background">>) = COLOR_WHITE
    /\ Len(NoteTexts(merged)) = 1

\* The paths of a document that lead to a value that is not a mapping.
RECURSIVE LeafPaths(_)
LeafPaths(doc) ==
    IF ~IsDict(doc) THEN {<<>>}
    ELSE UNION {{<<key>> \o p : p \in LeafPaths(doc.d[key])} : key \in DOMAIN doc.d}

\* No input gave the section-merge phase anything to write at a field of the
\* defaults: nothing was written there; for notes, no note was collected.
UntouchedByInputs(p) ==
    IF p = <<"notes">> THEN InputNotes(section_tokens, Len(section_tokens)) = <<>>
    ELSE ~HasPath(merged, p)

\* C14 (as stated): every field set by the section-merge phase keeps its
\* value in the final document, and every field of the defaults that no
\* input set has exactly the defaults' value in the final document.
C14_DefaultsFillUntouched ==
    pc = "saved" =>
       /\ \A p \in LeafPaths(merged) : SlotValue(tokens, p) = At(merged, p)
       /\ \A p \in LeafPaths(DEFAULT_TOKENS) :
             UntouchedByInputs(p) => SlotValue(tokens, p) = At(DEFAULT_TOKENS, p)

\* Some non-failed result supplies a value for the source field that the
\* merge accepts.
AcceptedSupplier(src) ==
    \E i \in 1..Len(section_tokens) :
        Usable(SuppliedColor(i, src)) /\ ~Rejected(SuppliedColor(i, src))

\* C14 (amended): every field written by the section-merge phase keeps its
\* value in the final document; every field of the defaults other than
\* notes at which the section-merge wrote nothing has exactly the defaults'
\* value, and that is the case of every mapped color slot for which the
\* inputs supplied only null, empty or rejected values; notes is always the
\* list collected by the section-merge, empty when nothing was collected,
\* and never the defaults' note.
C14_DefaultsFillValueFields ==
    pc = "saved" =>
       /\ \A p \in LeafPaths(merged) : SlotValue(tokens, p) = At(merged, p)
       /\ \A p \in LeafPaths(DEFAULT_TOKENS) \ {<<"notes">>} :
             ~HasPath(merged, p) => SlotValue(tokens, p) = At(DEFAULT_TOKENS, p)
       /\ \A m \in MappingSet :
             ~AcceptedSupplier(m[1]) => SlotValue(tokens, m[2]) = At(DEFAULT_TOKENS, m[2])
       /\ tokens.d["notes"] = List(InputNotes(section_tokens, Len(section_tokens)))

\* C14 witness: one section supplied a valid background and the accent
\* "blue"; the saved document holds the section's background, the defaults'
\* accent and an empty notes list.
C14_Witness ==
    /\ pc = "saved" /\ Len(section_tokens) = 1
    /\ SuppliedColor(1, "accent") = Str("blue")
    /\ SlotValue(tokens, <<"colors", "background">>) = COLOR_B
    /\ SlotValue(tokens, <<"colors", "accent">>) = At(DEFAULT_TOKENS, <<"colors", "accent">>)
    /\ SlotValue(tokens, <<"colors", "accent">>) # Str("blue")
    /\ tokens.d["notes"] = List(<<>>)

\* The input sequence is empty or every result in it is failed.
NothingUsable == FailedAmong(Len(section_tokens)) = 1..Len(section_tokens)

\* The notes written for the failed results, one each, in input order.
FailureNotes ==
    [i \in 1..Len(section_tokens) |->
        Str("Section " \o section_tokens[i].d["_section"].s \o " failed: "
            \o section_tokens[i].d["error"].s)]

\* The document without the bookkeeping keys of the section path.
ValueFields(doc) ==
    Dict([key \in DOMAIN doc.d \ {"_mode", "_sections", "_sectionCount"} |-> doc.d[key]])

\* C15 (as stated): when the input sequence is empty or every result is
\* failed, the final document is exactly the Defaults Document plus the
\* accumulated failure notes, one per failed result, in input order.
C15_TotalFallbackIsDefaultsPlusNotes ==
    (pc = "saved" /\ NothingUsable) =>
        ValueFields(tokens) =
           Put(DEFAULT_TOKENS, <<"notes">>,
               List(DEFAULT_TOKENS.d["notes"].l \o FailureNotes))

\* C15 (amended): when the input sequence is empty or every result is
\* failed, every value field of the final document equals the Defaults
\* Document's, its notes are exactly the failure notes, one per failed
\* result in input order, without the Defaults Document's own note, and the
\* bookkeeping records no section and the length of the sequence.
C15_TotalFallbackValuesAndNotes ==
    (pc = "saved" /\ NothingUsable) =>
        tokens =
           Put(Put(Put(Put(DEFAULT_TOKENS, <<"notes">>, List(FailureNotes)),
                       <<"_mode">>, Str("section")),
                   <<"_sections">>, List(<<>>)),
               <<"_sectionCount">>, Num(Len(section_tokens)))

\* C15 witness: two failed results, one of them carrying colors, were merged
\* and the saved document holds the defaults' background and two notes.
C15_Witness ==
    /\ pc = "saved" /\ Len(section_tokens) = 2 /\ NothingUsable
    /\ \E i \in 1..2 : HasPath(section_tokens[i], <<"colors", "background">>)
    /\ SlotValue(tokens, <<"colors", "background">>) = Str("#ffffff")
    /\ Len(NoteTexts(tokens)) = 2

\* The header / hero / footer sequence of the specification's scenario.
ScenarioSequence ==
    /\ Len(section_tokens) = 3
    /\ section_tokens[1].d["_section"] = Str("header")
    /\ SuppliedColor(1, "accent") = COLOR_A
    /\ SuppliedColor(1, "background") = None
    /\ section_tokens[2].d["_section"] = Str("hero")
    /\ SuppliedColor(2, "background") = COLOR_WHITE
    /\ SuppliedColor(2, "accent") = COLOR_B
    /\ section_tokens[3].d["_section"] = Str("footer")
    /\ ~Succeeded(3) /\ section_tokens[3].d["error"] = Str("timeout")

\* C16: after the section-merge colors.primary equals the accent of the
\* earliest non-failed result that supplies a valid hex accent and is unset
\* if there is none, so it equals colors.accent or both are unset; the
\* header / hero / footer scenario yields accent and primary of the header,
\* the background of the hero, _sections = [header, hero], _sectionCount = 3
\* and exactly one note, which mentions footer and timeout.
C16_PrimaryFromFirstValidAccent ==
    pc = "merged" =>
       /\ SlotValue(merged, <<"colors", "primary">>) =
             IF ValidSuppliers("accent") = {} THEN None
             ELSE SuppliedColor(Earliest(ValidSuppliers("accent")), "accent")
       /\ SlotValue(merged, <<"colors", "primary">>) = SlotValue(merged, <<"colors", "accent">>)
       /\ ScenarioSequence =>
             /\ SlotValue(merged, <<"colors", "accent">>) = COLOR_A
             /\ SlotValue(merged, <<"colors", "background">>) = COLOR_WHITE
             /\ SlotValue(merged, <<"colors", "primary">>) = COLOR_A
             /\ merged.d["_sections"] = List(<<Str("header"), Str("hero")>>)
             /\ merged.d["_sectionCount"] = Num(3)
             /\ Len(NoteTexts(merged)) = 1
             /\ Contains(NoteTexts(merged)[1].s, "footer")
             /\ Contains(NoteTexts(merged)[1].s, "timeout")

\* The fields the Defaults Document populates with design values.
DefaultFields == {p \in LeafPaths(DEFAULT_TOKENS) : p # <<"notes">>}

\* A document returned to main: saved by the section path or stamped by the
\* viewport path.
Returned == pc \in {"saved", "extracted"}

\* C17: the document returned after the defaults-merge is complete on both
\* paths: every field the Defaults Document populates holds a non-null
\* scalar, below mappings only, whatever the extraction results contain.
C17_AlwaysComplete ==
    Returned =>
       \A p \in DefaultFields :
          /\ HasPath(tokens, p)
          /\ At(tokens, p) # None
          /\ ~IsDict(At(tokens, p))

\* C18: the Token Merge Engine raises no errors: whatever the section
\* results hold (a number or a list where a color is expected, null or a
\* string in place of the colors mapping), merge_section_tokens followed by
\* merge_with_defaults returns without propagating an exception.
C18_NoExceptionPropagates == pc # "raised"

\* C19: the Defaults Document is never mutated: after any sequence of runs
\* of the section path and the viewport path DEFAULT_TOKENS and all its
\* nested values equal their initial values, and the document a run hands
\* back is the one its own inputs determine, whatever ran before.
C19_DefaultsNeverMutated ==
    heap # <<>> =>
       /\ Resolve(heap, DEFAULT_TOKENS_REF) = DEFAULT_TOKENS
       /\ pc = "viewport_saved" =>
             Resolve(heap, tokens) =
                Put(extract_tokens(api_key, available_images, response),
                    <<"_mode">>, Str("viewport"))
       /\ pc = "section_saved" =>
             Resolve(heap, tokens) = SectionDocument(merge_section_tokens(section_tokens))

\* After a run of the section path, a run of the viewport path returns a
\* copy of the defaults with its own notes and mode; the copy shares the
\* nested objects of DEFAULT_TOKENS.
C19_Witness ==
    /\ runs = MaxRuns
    /\ pc = "viewport_saved"
    /\ Len(section_tokens) = 3
    /\ response = RaisedResponse("ClientError")
    /\ tokens # DEFAULT_TOKENS_REF
    /\ heap[tokens.n].d["colors"] = heap[DEFAULT_TOKENS_REF.n].d["colors"]
    /\ Resolve(heap, tokens).d["notes"] = List(<<Str("Extraction failed: ClientError")>>)
    /\ Resolve(heap, tokens).d["_mode"] = Str("viewport")

\* The page index in the name of a section result.
PageIndex(result) ==
    CHOOSE j \in 0..99 : Stem(SectionFile(j)) = result.d["_section"].s

\* C20: the results are requested one image at a time and handed to
\* merge_section_tokens in page order: in ascending numeric section index,
\* for any number of sections, so that the color kept by first-wins is the
\* one of the section that comes first on the page.
C20_RequestOrderIsPageOrder ==
    /\ \A i, j \in 1..Len(section_tokens) :
          i < j => PageIndex(section_tokens[i]) < PageIndex(section_tokens[j])
    /\ pc = "saved" =>
          \E first \in 1..Len(section_tokens) :
             /\ \A i \in 1..Len(section_tokens) :
                   PageIndex(section_tokens[first]) <= PageIndex(section_tokens[i])
             /\ "colors" \in DOMAIN section_tokens[first].d =>
                   tokens.d["colors"].d["background"] =
                      section_tokens[first].d["colors"].d["background"]

\* The images requested so far, in request order.
Requested == SelectSeq(trace, LAMBDA e : e # "time.sleep")

\* The number of sections the run is to request.
ToRequest == Min(Cardinality(sections_dir), 15)

\* C21: in section mode at most 15 sections are requested; when more exist,
\* exactly the first 15 in request order are requested and the rest are
\* dropped without error; calls come one after the other with a rate-limit
\* delay between every two consecutive calls and none after the last; the
\* merge starts only after the last call has returned and receives exactly
\* one result (success or failure) per requested section, so that
\* _sectionCount = min(number of sections, 15).
C21_CallingLayerProtocol ==
    /\ Len(Requested) <= ToRequest
    /\ \A i \in 1..Len(Requested) : Requested[i] = sorted(sections_dir)[i]
    /\ \A i \in 1..Len(trace) : (trace[i] = "time.sleep") <=> (i % 2 = 0)
    /\ pc = "sleep" => Len(Requested) < ToRequest
    /\ Len(section_tokens) = Len(Requested)
    /\ \A i \in 1..Len(section_tokens) :
          section_tokens[i].d["_section"] = Str(Stem(Requested[i]))
    /\ pc # "raised"
    /\ merged # Idle =>
          /\ pc = "saved"
          /\ Len(Requested) = ToRequest
          /\ Len(trace) = 2 * ToRequest - 1
          /\ merged.d["_sectionCount"] = Num(ToRequest)
          /\ tokens.d["_sectionCount"] = Num(ToRequest)

\* A run over 17 images has saved its document: 15 calls, 14 delays, and
\* failed results among the 15.
C21_Witness ==
    /\ pc = "saved"
    /\ Cardinality(sections_dir) = 17
    /\ Len(section_tokens) = 15
    /\ Len(trace) = 29
    /\ \E i \in 1..15 : "error" \in DOMAIN section_tokens[i].d
    /\ tokens.d["_sectionCount"] = Num(15)

\* The canonical slots section-merge writes.
CANONICAL_SLOTS ==
    SlotSet
    \cup {<<"typography", "fontFamily", "heading">>, <<"typography", "fontFamily", "body">>,
          <<"typography", "fontSize", "4xl">>, <<"typography", "fontSize", "base">>,
          <<"typography", "fontWeight", "normal">>, <<"typography", "fontWeight", "medium">>,
          <<"typography", "fontWeight", "semibold">>, <<"typography", "fontWeight", "bold">>,
          <<"spacing", "16">>, <<"spacing", "4">>,
          <<"borderRadius", "md">>, <<"shadows", "md">>}

IsPrefixOf(a, b) == Len(a) <= Len(b) /\ SubSeq(b, 1, Len(a)) = a

\* The i-th result supplies this value at a path of its JSON (None when it
\* is failed or supplies none).
Supplied(i, path) ==
    IF Succeeded(i) /\ HasPath(section_tokens[i], path) THEN At(section_tokens[i], path)
    ELSE None

SizesOf(i) ==
    LET one(label, key) ==
            IF Usable(Supplied(i, <<"typography", key>>))
            THEN <<[label |-> label, size |-> Supplied(i, <<"typography", key>>)]>>
            ELSE <<>>
    IN one("heading", "headingSize") \o one("body", "bodySize")

\* The labelled sizes of the first n results, in input order.
RECURSIVE SizeEntries(_)
SizeEntries(n) == IF n = 0 THEN <<>> ELSE SizeEntries(n - 1) \o SizesOf(n)

\* The first entry of a label whose size no earlier entry of either label
\* carries (None when there is none).
FirstProcessed(entries, label) ==
    LET processed == {j \in 1..Len(entries) :
                        /\ entries[j].label = label
                        /\ \A k \in 1..(j - 1) : entries[k].size # entries[j].size}
    IN IF processed = {} THEN None
       ELSE entries[CHOOSE j \in processed : \A k \in processed : j <= k].size

OrDefault(v, slot) == IF v = None THEN At(DEFAULT_TOKENS, slot) ELSE v

\* C23: font sizes are merged with one deduplication set for the whole run:
\* within a result headingSize comes before bodySize, a size is processed
\* only if no earlier entry of either label carried the same string,
\* fontSize.4xl is the first processed heading size and fontSize.base the
\* first processed body size, each set at most once, and section-merge
\* writes no other fontSize bucket.
C23_FontSizeDedup ==
    LET entries == SizeEntries(idx)
        size4xl == FirstProcessed(entries, "heading")
        sizeBase == FirstProcessed(entries, "body")
        fontSize == At(SectionDoc, <<"typography", "fontSize">>)
    IN /\ pc \in {"merge", "merged"} =>
             /\ DOMAIN fontSize.d \subseteq {"4xl", "base"}
             /\ SlotValue(merged, <<"typography", "fontSize", "4xl">>) = size4xl
             /\ SlotValue(merged, <<"typography", "fontSize", "base">>) = sizeBase
       /\ pc = "merge" => seen_sizes = {entries[j].size : j \in 1..Len(entries)}
       /\ pc = "saved" =>
             fontSize =
                Put(Put(At(DEFAULT_TOKENS, <<"typography", "fontSize">>),
                        <<"4xl">>, OrDefault(size4xl, <<"typography", "fontSize", "4xl">>)),
                    <<"base">>, OrDefault(sizeBase, <<"typography", "fontSize", "base">>))

\* C23 witness: the first result gave 32px as heading and as body size, the
\* second 18px as body size; the saved document has 4xl = 32px, base = 18px.
C23_Witness ==
    /\ pc = "saved" /\ Len(section_tokens) = 2
    /\ Supplied(1, <<"typography", "headingSize">>) = Str("32px")
    /\ Supplied(1, <<"typography", "bodySize">>) = Str("32px")
    /\ Supplied(2, <<"typography", "bodySize">>) = Str("18px")
    /\ SlotValue(tokens, <<"typography", "fontSize", "4xl">>) = Str("32px")
    /\ SlotValue(tokens, <<"typography", "fontSize", "base">>) = Str("18px")

\* The free-form spacing keys of the i-th result that carry a value, in the
\* order the loop meets them (none when the result is failed or its spacing
\* is no mapping).
SpacingKeysOf(i) ==
    IF IsDict(Supplied(i, <<"spacing">>))
    THEN SelectSeq(Keys(Supplied(i, <<"spacing">>)),
                   LAMBDA key : Usable(Supplied(i, <<"spacing", key>>)))
    ELSE <<>>

\* The valued spacing entries of the first n results, in processing order.
RECURSIVE SpacingEntries(_)
SpacingEntries(n) ==
    IF n = 0 THEN <<>>
    ELSE SpacingEntries(n - 1)
         \o [j \in 1..Len(SpacingKeysOf(n)) |->
               [key |-> SpacingKeysOf(n)[j],
                val |-> Supplied(n, <<"spacing", SpacingKeysOf(n)[j]>>)]]

NamesSection(key) == Contains(Lower(key), "section") \/ Contains(Lower(key), "container")
NamesGap(key) == Contains(Lower(key), "gap")

\* The value of the first entry whose key is of a class (None when no entry).
FirstOfClass(entries, InClass(_)) ==
    LET of == {j \in 1..Len(entries) : InClass(entries[j].key)}
    IN IF of = {} THEN None ELSE entries[CHOOSE j \in of : \A k \in of : j <= k].val

\* The spacing of the section document, given what keys 16 and 4 are to hold.
SpacingIs(v16, v4) ==
    /\ pc \in {"merge", "merged"} =>
          /\ DOMAIN merged.d["spacing"].d \subseteq {"16", "4"}
          /\ SlotValue(merged, <<"spacing", "16">>) = v16
          /\ SlotValue(merged, <<"spacing", "4">>) = v4
    /\ pc = "saved" =>
          tokens.d["spacing"] =
             Put(Put(DEFAULT_TOKENS.d["spacing"], <<"16">>, OrDefault(v16, <<"spacing", "16">>)),
                 <<"4">>, OrDefault(v4, <<"spacing", "4">>))

\* C24 as stated: every valued spacing key that contains 'section' or
\* 'container' writes key 16 if it is unset, every valued key that contains
\* 'gap' writes key 4 if it is unset, a key that contains none of them
\* changes nothing, and no other spacing key is written.
C24_SpacingClassification ==
    SpacingIs(FirstOfClass(SpacingEntries(idx), NamesSection),
              FirstOfClass(SpacingEntries(idx), NamesGap))

\* A key of class 4: it contains 'gap' and neither 'section' nor 'container'.
NamesGapOnly(key) == NamesGap(key) /\ ~NamesSection(key)

\* C24 amended: the classes are disjoint, a key that contains 'section' or
\* 'container' is of class 16 also when it contains 'gap'; key 16 holds the
\* value of the first valued key of class 16, key 4 the value of the first
\* valued key of class 4, and no other spacing key is written.
C24_SpacingClassesDisjoint ==
    SpacingIs(FirstOfClass(SpacingEntries(idx), NamesSection),
              FirstOfClass(SpacingEntries(idx), NamesGapOnly))

\* C24 witness: sectionGap = 32px, then ContainerWidth, GAP and margin: the
\* saved document has 16 = 32px and 4 = 8px, and the defaults elsewhere.
C24_Witness ==
    /\ pc = "saved" /\ Len(section_tokens) = 2
    /\ Supplied(1, <<"spacing", "sectionGap">>) = Str("32px")
    /\ Supplied(2, <<"spacing", "GAP">>) = Str("8px")
    /\ Supplied(2, <<"spacing", "margin">>) = Str("4px")
    /\ SlotValue(tokens, <<"spacing", "16">>) = Str("32px")
    /\ SlotValue(tokens, <<"spacing", "4">>) = Str("8px")
    /\ SlotValue(tokens, <<"spacing", "1">>) = Str("4px")

\* The i-th result supplies a font-family string.
SuppliesFont(i) ==
    /\ IsStr(Supplied(i, <<"typography", "fontFamily">>))
    /\ Usable(Supplied(i, <<"typography", "fontFamily">>))

\* The font family of the earliest of the first n results that supplies one
\* (None when none does).
EarliestFont(n) ==
    IF \E i \in 1..n : SuppliesFont(i)
    THEN Supplied(CHOOSE i \in 1..n : SuppliesFont(i) /\ \A j \in 1..(i - 1) : ~SuppliesFont(j),
                  <<"typography", "fontFamily">>)
    ELSE None

\* C25: fontFamily.heading and fontFamily.body are set together, to the font
\* of the earliest successful result that supplies a font-family string, and
\* keep it; after every merge step and in the saved document heading = body.
C25_FontFamilyBothSlots ==
    OnSectionPath =>
       /\ SlotValue(SectionDoc, <<"typography", "fontFamily", "heading">>)
             = SlotValue(SectionDoc, <<"typography", "fontFamily", "body">>)
       /\ pc \in {"merge", "merged"} =>
             SlotValue(merged, <<"typography", "fontFamily", "heading">>) = EarliestFont(idx)
       /\ pc = "saved" =>
             tokens.d["typography"].d["fontFamily"] =
                D2("heading", OrDefault(EarliestFont(idx), <<"typography", "fontFamily", "heading">>),
                   "body", OrDefault(EarliestFont(idx), <<"typography", "fontFamily", "body">>))

\* C25 witness: the first result has a null font family, the second gives
\* Georgia: the saved document has Georgia for heading and body.
C25_Witness ==
    /\ pc = "saved" /\ Len(section_tokens) = 2
    /\ HasPath(section_tokens[1], <<"typography", "fontFamily">>)
    /\ Supplied(1, <<"typography", "fontFamily">>) = None
    /\ Supplied(2, <<"typography", "fontFamily">>) = Str("Georgia")
    /\ tokens.d["typography"].d["fontFamily"] = D2("heading", Str("Georgia"), "body", Str("Georgia"))

\* The sizes the sections supply under a key, in the results processed so far.
SuppliedSizes(key) ==
    {Supplied(i, <<"typography", key>>) : i \in 1..idx} \ {None}

\* C29 as stated: whenever a non-failed result supplies a non-null bodySize,
\* fontSize.base of the merged document is a size the sections supplied as
\* bodySize, and whenever one supplies a non-null headingSize, fontSize.4xl
\* is a size the sections supplied as headingSize.
C29_SuppliedSizeReachesBucket ==
    pc = "saved" =>
       /\ (\E i \in 1..idx : Usable(Supplied(i, <<"typography", "bodySize">>))) =>
             SlotValue(tokens, <<"typography", "fontSize", "base">>) \in SuppliedSizes("bodySize")
       /\ (\E i \in 1..idx : Usable(Supplied(i, <<"typography", "headingSize">>))) =>
             SlotValue(tokens, <<"typography", "fontSize", "4xl">>) \in SuppliedSizes("headingSize")

\* An entry of the label is processed: no earlier entry of either label
\* carries its size.
SomeProcessed(label) == FirstProcessed(SizeEntries(idx), label) # None

\* C29 amended: whenever a non-failed result supplies a bodySize whose text
\* no earlier size of the run (heading or body) carries, fontSize.base of the
\* merged document is the first such bodySize; when every bodySize repeats an
\* earlier size, fontSize.base is the default.  Likewise for headingSize and
\* fontSize.4xl.
C29_UnseenSizeReachesBucket ==
    pc = "saved" =>
       /\ SlotValue(tokens, <<"typography", "fontSize", "base">>) =
             IF SomeProcessed("body") THEN FirstProcessed(SizeEntries(idx), "body")
             ELSE At(DEFAULT_TOKENS, <<"typography", "fontSize", "base">>)
       /\ SomeProcessed("body") =>
             SlotValue(tokens, <<"typography", "fontSize", "base">>) \in SuppliedSizes("bodySize")
       /\ SlotValue(tokens, <<"typography", "fontSize", "4xl">>) =
             IF SomeProcessed("heading") THEN FirstProcessed(SizeEntries(idx), "heading")
             ELSE At(DEFAULT_TOKENS, <<"typography", "fontSize", "4xl">>)
       /\ SomeProcessed("heading") =>
             SlotValue(tokens, <<"typography", "fontSize", "4xl">>) \in SuppliedSizes("headingSize")

\* C29 witness: one result with heading and body size 32px: the saved
\* document has 4xl = 32px and the default base.
C29_Witness ==
    /\ pc = "saved" /\ Len(section_tokens) = 1
    /\ Supplied(1, <<"typography", "headingSize">>) = Str("32px")
    /\ Supplied(1, <<"typography", "bodySize">>) = Str("32px")
    /\ SlotValue(tokens, <<"typography", "fontSize", "4xl">>) = Str("32px")
    /\ SlotValue(tokens, <<"typography", "fontSize", "base">>) = Str("16px")

\* The seven typography fields of the hierarchy tier: the section's own
\* field and the global field for the same element.
SECTION_TYPOGRAPHY ==
    [hero_h1 |-> <<<<"TYPOGRAPHY_BY_SECTION", "hero", "h1">>, <<"EXACT_TYPOGRAPHY", "h1">>>>,
     hero_h2 |-> <<<<"TYPOGRAPHY_BY_SECTION", "hero", "h2">>, <<"EXACT_TYPOGRAPHY", "h2">>>>,
     hero_body |-> <<<<"TYPOGRAPHY_BY_SECTION", "hero", "p">>, <<"EXACT_TYPOGRAPHY", "body">>>>,
     content_h2 |-> <<<<"TYPOGRAPHY_BY_SECTION", "content", "h2">>, <<"EXACT_TYPOGRAPHY", "h2">>>>,
     content_h3 |-> <<<<"TYPOGRAPHY_BY_SECTION", "content", "h3">>, <<"EXACT_TYPOGRAPHY", "h3">>>>,
     content_body |-> <<<<"TYPOGRAPHY_BY_SECTION", "content", "p">>, <<"EXACT_TYPOGRAPHY", "body">>>>,
     footer_body |-> <<<<"TYPOGRAPHY_BY_SECTION", "footer", "p">>, <<"EXACT_TYPOGRAPHY", "body">>>>]

\* C26: in the hierarchy tier each of hero H1, hero H2, hero body, content
\* H2, content H3, content body and footer body is rendered with the
\* section's own value when the summary carries it, otherwise with the
\* global EXACT_TYPOGRAPHY value for the same element, otherwise with the
\* fixed literal; no value of another section is rendered for it.
C26_TypographyPerSection ==
    (pc = "selected" /\ prompt.st = "ok"
        /\ prompt.template = "STRUCTURE_PROMPT_WITH_HIERARCHY") =>
       \A f \in DOMAIN SECTION_TYPOGRAPHY :
          prompt.args[f] =
             IF HasPath(dimensions, SECTION_TYPOGRAPHY[f][1])
             THEN PathText(SECTION_TYPOGRAPHY[f][1])
             ELSE IF HasPath(dimensions, SECTION_TYPOGRAPHY[f][2])
             THEN PathText(SECTION_TYPOGRAPHY[f][2])
             ELSE FieldDefault(prompt.template, f)

-----------------------------------------------------------------------------
(* C27: the stylesheet is a fixed projection of the document *)

\* The 41 custom properties in the order of the stylesheet, each with the
\* path of the document it shows.
CSS_PROPERTIES ==
    << <<"color-primary", <<"colors", "primary">> >>,
       <<"color-secondary", <<"colors", "secondary">> >>,
       <<"color-accent", <<"colors", "accent">> >>,
       <<"color-background", <<"colors", "background">> >>,
       <<"color-surface", <<"colors", "surface">> >>,
       <<"color-text-primary", <<"colors", "text", "primary">> >>,
       <<"color-text-secondary", <<"colors", "text", "secondary">> >>,
       <<"color-text-muted", <<"colors", "text", "muted">> >>,
       <<"color-border", <<"colors", "border">> >>,
       <<"font-heading", <<"typography", "fontFamily", "heading">> >>,
       <<"font-body", <<"typography", "fontFamily", "body">> >>,
       <<"font-size-xs", <<"typography", "fontSize", "xs">> >>,
       <<"font-size-sm", <<"typography", "fontSize", "sm">> >>,
       <<"font-size-base", <<"typography", "fontSize", "base">> >>,
       <<"font-size-lg", <<"typography", "fontSize", "lg">> >>,
       <<"font-size-xl", <<"typography", "fontSize", "xl">> >>,
       <<"font-size-2xl", <<"typography", "fontSize", "2xl">> >>,
       <<"font-size-3xl", <<"typography", "fontSize", "3xl">> >>,
       <<"font-size-4xl", <<"typography", "fontSize", "4xl">> >>,
       <<"font-weight-normal", <<"typography", "fontWeight", "normal">> >>,
       <<"font-weight-medium", <<"typography", "fontWeight", "medium">> >>,
       <<"font-weight-semibold", <<"typography", "fontWeight", "semibold">> >>,
       <<"font-weight-bold", <<"typography", "fontWeight", "bold">> >>,
       <<"line-height-tight", <<"typography", "lineHeight", "tight">> >>,
       <<"line-height-normal", <<"typography", "lineHeight", "normal">> >>,
       <<"line-height-relaxed", <<"typography", "lineHeight", "relaxed">> >>,
       <<"space-1", <<"spacing", "1">> >>,
       <<"space-2", <<"spacing", "2">> >>,
       <<"space-3", <<"spacing", "3">> >>,
       <<"space-4", <<"spacing", "4">> >>,
       <<"space-6", <<"spacing", "6">> >>,
       <<"space-8", <<"spacing", "8">> >>,
       <<"space-12", <<"spacing", "12">> >>,
       <<"space-16", <<"spacing", "16">> >>,
       <<"radius-sm", <<"borderRadius", "sm">> >>,
       <<"radius-md", <<"borderRadius", "md">> >>,
       <<"radius-lg", <<"borderRadius", "lg">> >>,
       <<"radius-full", <<"borderRadius", "full">> >>,
       <<"shadow-sm", <<"shadows", "sm">> >>,
       <<"shadow-md", <<"shadows", "md">> >>,
       <<"shadow-lg", <<"shadows", "lg">> >> >>

\* The document's value at the path or, when the path is absent, the
\* Defaults Document's.
Projected(doc, path) == IF HasPath(doc, path) THEN At(doc, path) ELSE At(DEFAULT_TOKENS, path)

\* The declarations from..to of the stylesheet of a document.
Declarations(doc, from, to) ==
    [i \in 1..(to - from + 1) |->
        "  --" \o CSS_PROPERTIES[from + i - 1][1] \o ": "
        \o PyStr(Projected(doc, CSS_PROPERTIES[from + i - 1][2])) \o ";"]

\* The stylesheet the claim describes: the 41 declarations, in order, between
\* the fixed comment lines, and nothing else.
ProjectedStylesheet(doc) ==
    JoinLines(<< "/* Design Tokens - Auto-generated */",
                 "/* Edit values below to customize the design */",
                 "", ":root {", "  /* Colors */" >>
              \o Declarations(doc, 1, 9)
              \o << "", "  /* Typography */" >> \o Declarations(doc, 10, 26)
              \o << "", "  /* Spacing */" >> \o Declarations(doc, 27, 34)
              \o << "", "  /* Border Radius */" >> \o Declarations(doc, 35, 38)
              \o << "", "  /* Shadows */" >> \o Declarations(doc, 39, 41)
              \o << "}", "" >>)

\* The call of generate_tokens_css has returned or raised.
CssCalled == css_output # Idle

\* C27: for every token document generate_tokens_css emits the same 41
\* custom properties in the same order, each with the document's value at its
\* path or, when the path is absent, the default's; other keys produce
\* nothing.
C27_FixedProjection ==
    CssCalled => css_output = Str(ProjectedStylesheet(tokens))

-----------------------------------------------------------------------------
(* C28: load_env loads the first .env and keeps what is set *)

\* The search directories that have a .env.
WithEnvFile == {i \in 1..Len(get_env_search_paths) : dotenv[i].exists}

FirstWithEnvFile == CHOOSE i \in WithEnvFile : \A j \in WithEnvFile : i <= j

\* The variables a file defines: its items as a mapping.
FileVars(file) ==
    LET items == parse_env_file(file)
    IN [key \in {items[i].key : i \in 1..Len(items)} |->
          items[CHOOSE i \in 1..Len(items) : items[i].key = key].value]

\* The call of load_env ends in this step.
LoadEnvEnds == pc = "load_env" /\ pc' # "load_env"

\* Every variable that is set keeps its value in this step.
SetVarsKept == \A key \in DOMAIN environ : key \in DOMAIN environ' /\ environ'[key] = environ[key]

\* load_env returns the path of the first .env, having opened that file only
\* and having set each of its variables that was not set.
LoadsFirstOnly ==
    /\ pc' = "loaded"
    /\ env_file' = EnvPath(FirstWithEnvFile)
    /\ opened' = <<EnvPath(FirstWithEnvFile).s>>
    /\ LET file == FileVars(dotenv[FirstWithEnvFile])
       IN /\ DOMAIN environ' = DOMAIN environ \cup DOMAIN file
          /\ \A key \in DOMAIN file \ DOMAIN environ : environ'[key] = file[key]

\* load_env returns None and has touched nothing.
LoadsNothing ==
    /\ pc' = "loaded"
    /\ env_file' = None
    /\ opened' = <<>>
    /\ environ' = environ

\* C28: load_env never changes a variable that is already set; it loads
\* exactly one file, the .env of the first search directory that has one, and
\* returns its path, without consulting later directories; when no directory
\* has a .env it returns None and the environment is unchanged.
C28_LoadsFirstEnvOnly ==
    [][/\ SetVarsKept
       /\ LoadEnvEnds => IF WithEnvFile # {} THEN LoadsFirstOnly ELSE LoadsNothing]_vars

\* The same holds of every call that returns.
LoadEnvReturnsFirstOnly ==
    [][/\ SetVarsKept
       /\ LoadEnvEnds /\ pc' = "loaded" =>
              IF WithEnvFile # {} THEN LoadsFirstOnly ELSE LoadsNothing]_vars

-----------------------------------------------------------------------------
(* C30: the default note and extracted values exclude each other *)

\* The document main holds after either path.
DocumentReturned == pc \in {"saved", "extracted"} /\ IsDict(tokens)

\* The document's notes hold the Defaults Document's note.
CarriesDefaultNote ==
    /\ HasKey(tokens, "notes")
    /\ tokens.d["notes"].k = "list"
    /\ \E i \in 1..Len(tokens.d["notes"].l) : tokens.d["notes"].l[i] = Str(DEFAULT_NOTE)

\* The keys of an answer that are not notes, failure marks or bookkeeping.
ValueKeysOf(answer) ==
    IF IsDict(answer) THEN DOMAIN answer.d \ {"notes", "error", "_section"} ELSE {}

\* A value of the model's answer was merged into the document: on the
\* whole-document path the answer was parsed and merged with the defaults, on
\* the section path a result that did not fail brought a value.
ValuesExtracted ==
    \/ /\ pc = "extracted"
       /\ api_key /\ available_images > 0 /\ response.st = "json"
       /\ ValueKeysOf(response.body) # {}
       /\ \E path \in SlotSet \cup {<<"spacing", "4">>, <<"typography">>, <<"spacing">>} :
             HasPath(response.body, path) /\ HasPath(tokens, path)
             /\ At(tokens, path) = At(response.body, path)
    \/ /\ pc = "saved"
       /\ \E i \in 1..Len(section_tokens) :
             "error" \notin DOMAIN section_tokens[i].d /\ ValueKeysOf(section_tokens[i]) # {}

\* C30: a returned document carries the default note only when no value
\* extracted by the model was merged into it, on either path.
C30_DefaultNoteOnlyWithoutValues ==
    DocumentReturned /\ CarriesDefaultNote => ~ValuesExtracted

====
